---- MODULE Spec2Model ----
(***************************************************************************)
(* A model of the Schmapper mapping engine (backend/main.py): the ordered  *)
(* tree composer, the structural schema analyzer, the direct mapping       *)
(* engine and the repeating aggregator.                                    *)
(*                                                                         *)
(* Conventions.  A slash-delimited path "a/b/c" is the sequence of its     *)
(* segments <<"a","b","c">>; the empty string is <<>>.  A text value is a  *)
(* sequence of one-character strings; "" (and None) is <<>>.  An element   *)
(* tree is a sequence of nodes, a node's id is its index, the root is 1,   *)
(* and a node's kids is the sequence of its children's ids in document     *)
(* order.                                                                  *)
(***************************************************************************)
EXTENDS Integers, Sequences, FiniteSets, TLC

VARIABLES
    ins_schema,   \* SpecInsert: the target Schema of the run
    ins_tree,     \* SpecInsert: the output tree being composed
    ins_todo,     \* SpecInsert: indices of the Fields not yet inserted
    an_xsd,       \* SpecAnalyze: the XSD description handed to the analyzer
    an_mode,      \* SpecAnalyze: "idle", then "source" or "target"
    an_out,       \* SpecAnalyze: what the analyzer returned
    cmp_in,       \* SpecCompose: the record, the mappings and the target Schema
    cmp_out,      \* SpecCompose: the flat result and the composed tree
    agg_in,       \* SpecAgg: the source document and the mapping configuration
    agg_out,      \* SpecAgg: the output tree after the repeating mappings
    val_in,       \* SpecValue: the arguments of one call of a pure function
    val_out,      \* SpecValue: what the call returned
    bat_in,       \* SpecBatch: the request and the files of the source directory
    bat_run       \* SpecBatch: the state of the batch run

ins_vars == <<ins_schema, ins_tree, ins_todo>>

an_vars == <<an_xsd, an_mode, an_out>>

cmp_vars == <<cmp_in, cmp_out>>

agg_vars == <<agg_in, agg_out>>

val_vars == <<val_in, val_out>>

bat_vars == <<bat_in, bat_run>>

vars == <<ins_vars, an_vars, cmp_vars, agg_vars, val_vars, bat_vars>>

\* a component that takes no part in a specification stays idle
InsIdle == ins_schema = <<>> /\ ins_tree = <<>> /\ ins_todo = {}

AnIdle == an_xsd = <<>> /\ an_mode = "off" /\ an_out = <<>>

CmpIdle == cmp_in = <<>> /\ cmp_out = <<>>

AggIdle == agg_in = <<>> /\ agg_out = <<>>

ValIdle == val_in = <<>> /\ val_out = <<>>

BatIdle == bat_in = <<>> /\ bat_run = <<>>

-----------------------------------------------------------------------------
(* Sequences and paths *)

Last(s) == s[Len(s)]

Front(s) == SubSeq(s, 1, Len(s) - 1)

Range(s) == {s[i] : i \in 1..Len(s)}

\* list.insert(i, x) with a 0-based index i in 0..len
InsertAt(s, i, x) == SubSeq(s, 1, i) \o <<x>> \o SubSeq(s, i + 1, Len(s))

\* p == q or p.startswith(q + '/')
AtOrBelow(p, q) == Len(q) <= Len(p) /\ SubSeq(p, 1, Len(q)) = q

\* schema_path.endswith('/' + tag)
EndsWithSlashTag(schema_path, tag) ==
    Len(schema_path) >= 2 /\ Last(schema_path) = tag

RECURSIVE SeqSum(_)
SeqSum(s) == IF s = <<>> THEN 0 ELSE s[1] + SeqSum(Tail(s))

-----------------------------------------------------------------------------
(* Schema model *)

Fld(id, path, type, repeatable, order) ==
    [id |-> id, name |-> Last(path), type |-> type, path |-> path,
     repeatable |-> repeatable,
     maxOccurs |-> IF repeatable THEN "unbounded" ELSE "1",
     order |-> order]

Sentinel == 999999

-----------------------------------------------------------------------------
(* Element trees *)

NoText == <<>>

Node(tag, text) == [tag |-> tag, text |-> text, kids |-> <<>>]

NewTree(root_tag) == <<Node(root_tag, NoText)>>

\* parent.insert(pos, ET.Element(tag)) with the new element's text set
AddChild(t, parent, pos, tag, text) ==
    [Append(t, Node(tag, text)) EXCEPT ![parent].kids = InsertAt(@, pos, Len(t) + 1)]

\* "for c in current: if c_tag == part: child = c; break" (0 when none)
FindChild(t, parent, tag) ==
    LET ks == t[parent].kids
        hits == {i \in 1..Len(ks) : t[ks[i]].tag = tag}
    IN IF hits = {} THEN 0
       ELSE ks[CHOOSE i \in hits : \A j \in hits : i <= j]

KidTags(t, n) == [i \in 1..Len(t[n].kids) |-> t[t[n].kids[i]].tag]

-----------------------------------------------------------------------------
(* ElementOrderTracker *)

RECURSIVE SortedInsert(_, _)
SortedInsert(s, e) ==
    IF s = <<>> THEN <<e>>
    ELSE IF e.order < s[1].order THEN <<e>> \o s
    ELSE <<s[1]>> \o SortedInsert(Tail(s), e)

\* list.sort(key=order): a stable sort
RECURSIVE SortByOrder(_)
SortByOrder(s) ==
    IF s = <<>> THEN <<>> ELSE SortedInsert(SortByOrder(Front(s)), Last(s))

\* __init__: the Field paths and the wrapper paths, sorted by 'order'
TrackerPaths(schema) ==
    LET fs == [i \in 1..Len(schema.fields) |->
                 [path |-> schema.fields[i].path, order |-> schema.fields[i].order]]
        rs == [i \in 1..Len(schema.repeating_elements) |->
                 [path |-> schema.repeating_elements[i].wrapper_path,
                  order |-> schema.repeating_elements[i].order]]
        sorted == SortByOrder(fs \o rs)
    IN [i \in 1..Len(sorted) |-> sorted[i].path]

\* _path_to_index[p]: a later duplicate overwrites the index
PathIndex(fp, p) ==
    (CHOOSE i \in 1..Len(fp) : fp[i] = p /\ \A j \in 1..Len(fp) : fp[j] = p => j <= i) - 1

\* the partial match: the first schema path that ends with '/' + last segment
get_order_index_fallback(fp, path) ==
    LET hits == {i \in 1..Len(fp) : EndsWithSlashTag(fp[i], Last(path))}
    IN IF hits = {} THEN Sentinel
       ELSE PathIndex(fp, fp[CHOOSE i \in hits : \A j \in hits : i <= j])

get_order_index(fp, path) ==
    IF \E i \in 1..Len(fp) : fp[i] = path
    THEN PathIndex(fp, path)
    ELSE get_order_index_fallback(fp, path)

get_insertion_index(fp, t, parent, child_tag, parent_path) ==
    LET target_order == get_order_index(fp, parent_path \o <<child_tag>>)
        ks == t[parent].kids
        later == {i \in 1..Len(ks) :
                    target_order < get_order_index(fp, parent_path \o <<t[ks[i]].tag>>)}
    IN IF later = {} THEN Len(ks)
       ELSE (CHOOSE i \in later : \A j \in later : i <= j) - 1

\* "Navigate/create path to parent": parts[i] for i in range(i, len(parts) - 1),
\* i 0-based; a missing intermediate element is created at its insertion index
RECURSIVE NavigateToParent(_, _, _, _, _, _)
NavigateToParent(fp, t, current_elem, current_path, parts, i) ==
    IF i > Len(parts) - 2 THEN [tree |-> t, elem |-> current_elem]
    ELSE LET part == parts[i + 1]
             found == FindChild(t, current_elem, part)
             t2 == IF found = 0
                   THEN AddChild(t, current_elem,
                                 get_insertion_index(fp, t, current_elem, part, current_path),
                                 part, NoText)
                   ELSE t
             child == IF found = 0 THEN Len(t) + 1 ELSE found
         IN NavigateToParent(fp, t2, child, current_path \o <<part>>, parts, i + 1)

\* REPEAT-TO-SINGLE: insert one new leaf for field_path at its position
InsertLeafOrdered(fp, t, field_path, text) ==
    LET root_tag == t[1].tag
        start_idx == IF field_path[1] = root_tag THEN 1 ELSE 0
        nav == NavigateToParent(fp, t, 1, <<root_tag>>, field_path, start_idx)
        final_tag == Last(field_path)
        parent_path == Front(field_path)
        insert_idx == get_insertion_index(fp, nav.tree, nav.elem, final_tag, parent_path)
    IN AddChild(nav.tree, nav.elem, insert_idx, final_tag, text)

-----------------------------------------------------------------------------
(* SpecInsert: the Fields of a target Schema are inserted one at a time,   *)
(* in any order, through the repeat-to-single insertion.                   *)

MaxInsFields == 3

InsPaths == {<<"R", "a">>, <<"R", "b", "c">>, <<"R", "b", "d">>, <<"R", "e", "c">>}

\* a declaration order an XSD can produce: the Fields of one subtree are contiguous
IsPreOrder(s) ==
    \A i, j, k \in 1..Len(s) : i < j /\ j < k =>
        \A l \in 1..Len(s[i]) :
            (l <= Len(s[k]) /\ SubSeq(s[i], 1, l) = SubSeq(s[k], 1, l))
                => (l <= Len(s[j]) /\ SubSeq(s[j], 1, l) = SubSeq(s[i], 1, l))

InsPathLists ==
    UNION {{s \in [1..n -> InsPaths] :
              (\A i, j \in 1..n : i # j => s[i] # s[j]) /\ IsPreOrder(s)}
           : n \in 1..MaxInsFields}

InsSchema(s) ==
    [fields |-> [i \in 1..Len(s) |-> Fld(i, s[i], "string", FALSE, i - 1)],
     repeating_elements |-> <<>>]

InsInit ==
    /\ ins_schema \in {InsSchema(s) : s \in InsPathLists}
    /\ ins_tree \in {NewTree("Record"), NewTree("R")}
    /\ ins_todo = 1..Len(ins_schema.fields)
    /\ AnIdle /\ CmpIdle /\ AggIdle /\ ValIdle /\ BatIdle

InsertField(k) ==
    /\ k \in ins_todo
    /\ ins_tree' = InsertLeafOrdered(TrackerPaths(ins_schema), ins_tree,
                                     ins_schema.fields[k].path, NoText)
    /\ ins_todo' = ins_todo \ {k}
    /\ UNCHANGED <<ins_schema, an_vars, cmp_vars, agg_vars, val_vars, bat_vars>>

InsNext == \E k \in 1..MaxInsFields : InsertField(k)

SpecInsert == InsInit /\ [][InsNext]_vars

\* the declared position of the element at schema path p: the least order of
\* a Field at or below p (Sentinel when the schema has none)
DeclaredPos(schema, p) ==
    LET os == {schema.fields[i].order : i \in {j \in 1..Len(schema.fields) :
                                                 AtOrBelow(schema.fields[j].path, p)}}
    IN IF os = {} THEN Sentinel ELSE CHOOSE o \in os : \A q \in os : o <= q

RECURSIVE SiblingsInDeclaredOrder(_, _, _, _)
SiblingsInDeclaredOrder(schema, t, n, path) ==
    LET ks == t[n].kids
    IN /\ \A i, j \in 1..Len(ks) : i < j =>
              DeclaredPos(schema, path \o <<t[ks[i]].tag>>)
                  <= DeclaredPos(schema, path \o <<t[ks[j]].tag>>)
       /\ \A i \in 1..Len(ks) :
              SiblingsInDeclaredOrder(schema, t, ks[i], path \o <<t[ks[i]].tag>>)

\* the schema path of the root element: <<>> for the default root "Record"
RootPath(schema, t) ==
    IF \E i \in 1..Len(schema.fields) : schema.fields[i].path[1] = t[1].tag
    THEN <<t[1].tag>> ELSE <<>>

\* C1: once every Field has been inserted, in whatever order, the siblings
\* under every element (intermediate parents included) are in the
\* schema-declared sequence order.
C1_DeclaredOrder ==
    ins_todo = {} =>
        SiblingsInDeclaredOrder(ins_schema, ins_tree, 1, RootPath(ins_schema, ins_tree))

-----------------------------------------------------------------------------
(* Structural Schema Analyzer: parse_xsd_schema (target) and               *)
(* parse_xml_as_source (source, XSD branch).                               *)
(*                                                                         *)
(* An XSD description is [types, roots]: types maps the name of each named *)
(* complexType to [present, has_seq, seq] (seq: its xs:sequence of         *)
(* elements), roots is the sequence of top-level named elements.  An       *)
(* element is [name, type_ref, maxOccurs, inline]; name "" and type_ref "" *)
(* stand for an absent attribute, and type_ref is written without its      *)
(* namespace prefix (type_ref.split(':')[-1]).                             *)

NoCT == [present |-> FALSE, has_seq |-> FALSE, seq |-> <<>>]

CT(has_seq, seq) == [present |-> TRUE, has_seq |-> has_seq, seq |-> seq]

Elem(name, type_ref, maxOccurs) ==
    [name |-> name, type_ref |-> type_ref, maxOccurs |-> maxOccurs, inline |-> NoCT]

InlineElem(name, maxOccurs, ct) ==
    [name |-> name, type_ref |-> "", maxOccurs |-> maxOccurs, inline |-> ct]

MAX_RECURSION_DEPTH == 15

\* the depth of nested process_element calls at which Python raises RecursionError
RecursionLimit == 20

\* f"inline:{name}"
InlineTypeName(name) ==
    CASE name = "R" -> "inline:R"
      [] name = "x" -> "inline:x"
      [] name = "y" -> "inline:y"
      [] name = "S" -> "inline:S"
      [] OTHER -> "inline:?"

is_repeatable(elem) == elem.maxOccurs = "unbounded" \/ elem.maxOccurs \in {"2", "3"}

\* named_types.get(clean_type)
TypeDef(types, type_ref) ==
    IF type_ref \in DOMAIN types THEN types[type_ref] ELSE NoCT

\* the complexType that decides the element's structure: the inline one,
\* elif the named one the type attribute refers to
StructType(types, elem) ==
    IF elem.inline.present THEN elem.inline
    ELSE IF elem.type_ref # "" THEN TypeDef(types, elem.type_ref)
    ELSE NoCT

has_complex_content(types, elem) ==
    LET ct == StructType(types, elem)
    IN ct.present /\ ct.has_seq /\ Len(ct.seq) > 0

AnState0 == [fields |-> <<>>, reps |-> <<>>, order |-> 0, idx |-> 0, overflow |-> FALSE]

RECURSIVE extract_fields_from_complex_type(_, _, _, _)
\* returns [fields, order]: one child Field per named child, each taking a
\* value of the run-wide counter
extract_fields_from_complex_type(base_path, seq, i, acc) ==
    IF i > Len(seq) THEN acc
    ELSE LET c == seq[i]
         IN IF c.name = ""
            THEN extract_fields_from_complex_type(base_path, seq, i + 1, acc)
            ELSE extract_fields_from_complex_type(base_path, seq, i + 1,
                   [fields |-> Append(acc.fields,
                        [id |-> [kind |-> "field", n |-> 0, path |-> base_path \o <<c.name>>],
                         path |-> base_path \o <<c.name>>,
                         relative_path |-> <<".", c.name>>,
                         type |-> IF c.type_ref = "" THEN "string" ELSE c.type_ref,
                         tag |-> c.name, name |-> c.name, order |-> acc.order]),
                    order |-> acc.order + 1])

\* the repeating_info of a wrapper element and the counter after it
RepeatingInfo(types, elem, kind, path_so_far, current_path, current_order, st) ==
    LET ct == StructType(types, elem)
        ex == extract_fields_from_complex_type(current_path,
                  IF ct.present /\ ct.has_seq THEN ct.seq ELSE <<>>, 1,
                  [fields |-> <<>>, order |-> st.order])
    IN [st EXCEPT !.order = ex.order,
                  !.reps = Append(@,
                      [id |-> [kind |-> kind, n |-> Len(st.reps), path |-> <<>>],
                       path |-> current_path, parent_path |-> path_so_far,
                       tag |-> elem.name, name |-> elem.name, count |-> elem.maxOccurs,
                       fields |-> SortByOrder(ex.fields), wrapper_path |-> current_path,
                       order |-> IF kind = "rep-tgt" THEN current_order ELSE Sentinel])]

AnField(kind, st, name, type, path, repeatable, maxOccurs, order, recursive) ==
    [id |-> [kind |-> kind, n |-> st.idx, path |-> <<>>],
     name |-> name, type |-> type, path |-> path, repeatable |-> repeatable,
     maxOccurs |-> maxOccurs, order |-> order,
     isRecursive |-> recursive, recursiveType |-> IF recursive THEN type ELSE ""]

AppendField(st, f) == [st EXCEPT !.fields = Append(@, f), !.idx = @ + 1]

RECURSIVE process_element_tgt(_, _, _, _, _, _)
RECURSIVE process_children_tgt(_, _, _, _, _, _, _)

\* "for child_elem in seq.findall(element): process_element(child_elem, ...)"
process_children_tgt(types, seq, i, current_path, depth, visited, st) ==
    IF i > Len(seq) THEN st
    ELSE process_children_tgt(types, seq, i + 1, current_path, depth, visited,
             process_element_tgt(types, seq[i], current_path, depth, visited, st))

\* parse_xsd_schema.process_element
process_element_tgt(types, elem, path_so_far, depth, visited_types, st) ==
    IF depth > MAX_RECURSION_DEPTH THEN st
    ELSE
    LET current_order == st.order
        st1 == [st EXCEPT !.order = @ + 1]
        name == elem.name
        current_path == path_so_far \o <<name>>
        is_field_repeatable == is_repeatable(elem)
        current_type_name ==
            IF elem.type_ref # "" THEN elem.type_ref
            ELSE IF elem.inline.present THEN InlineTypeName(name)
            ELSE ""
        new_visited ==
            IF current_type_name # "" THEN visited_types \cup {current_type_name}
            ELSE visited_types
        st2 == IF is_repeatable(elem) /\ has_complex_content(types, elem)
               THEN RepeatingInfo(types, elem, "rep-tgt", path_so_far, current_path,
                                  current_order, st1)
               ELSE st1
        ct == StructType(types, elem)
        leaf_type == IF elem.type_ref # "" THEN elem.type_ref ELSE "string"
    IN IF name = "" THEN st1
       ELSE IF current_type_name # "" /\ current_type_name \in visited_types
       THEN AppendField(st1, AnField("tgt", st1, name, current_type_name, current_path,
                                     is_field_repeatable, elem.maxOccurs, current_order, TRUE))
       ELSE IF ct.present /\ ct.has_seq
       THEN process_children_tgt(types, ct.seq, 1, current_path, depth + 1, new_visited, st2)
       ELSE AppendField(st2, AnField("tgt", st2, name, leaf_type, current_path,
                                     is_field_repeatable, elem.maxOccurs, current_order, FALSE))

RECURSIVE process_element_src(_, _, _, _, _)
RECURSIVE process_children_src(_, _, _, _, _, _)

process_children_src(types, seq, i, current_path, depth, st) ==
    IF i > Len(seq) \/ st.overflow THEN st
    ELSE process_children_src(types, seq, i + 1, current_path, depth,
             process_element_src(types, seq[i], current_path, depth, st))

\* parse_xml_as_source.process_element; depth counts the nested calls, and a
\* call beyond RecursionLimit raises RecursionError, which ends the analysis
process_element_src(types, elem, path_so_far, depth, st) ==
    IF depth > RecursionLimit THEN [st EXCEPT !.overflow = TRUE]
    ELSE
    LET current_order == st.order
        st1 == [st EXCEPT !.order = @ + 1]
        name == elem.name
        current_path == path_so_far \o <<name>>
        st2 == IF is_repeatable(elem) /\ has_complex_content(types, elem)
               THEN RepeatingInfo(types, elem, "rep-src", path_so_far, current_path,
                                  current_order, st1)
               ELSE st1
        ct == StructType(types, elem)
        leaf_type == IF elem.type_ref # "" THEN elem.type_ref ELSE "string"
    IN IF name = "" THEN st1
       ELSE IF ct.present /\ ct.has_seq
       THEN process_children_src(types, ct.seq, 1, current_path, depth + 1, st2)
       ELSE AppendField(st2, AnField("src", st2, name, leaf_type, current_path,
                                     FALSE, "1", current_order, FALSE))

RECURSIVE process_roots_tgt(_, _, _, _)
process_roots_tgt(types, roots, i, st) ==
    IF i > Len(roots) THEN st
    ELSE process_roots_tgt(types, roots, i + 1,
             process_element_tgt(types, roots[i], <<>>, 0, {}, st))

RECURSIVE process_roots_src(_, _, _, _)
process_roots_src(types, roots, i, st) ==
    IF i > Len(roots) \/ st.overflow THEN st
    ELSE process_roots_src(types, roots, i + 1,
             process_element_src(types, roots[i], <<>>, 0, st))

deduplicate_fields_mut(fields) == fields

RECURSIVE deduplicate_fields_from(_, _, _)
deduplicate_fields_from(fields, i, unique_fields) ==
    IF i > Len(fields) THEN unique_fields
    ELSE deduplicate_fields_from(fields, i + 1,
             IF \E k \in 1..Len(unique_fields) : unique_fields[k].path = fields[i].path
             THEN unique_fields
             ELSE Append(unique_fields, fields[i]))

deduplicate_fields(fields) == deduplicate_fields_from(fields, 1, <<>>)

RECURSIVE SelectSeq2(_, _, _)
SelectSeq2(s, keep, i) ==
    IF i > Len(s) THEN <<>>
    ELSE (IF i \in keep THEN <<s[i]>> ELSE <<>>) \o SelectSeq2(s, keep, i + 1)

\* "Filter out fields that are part of repeating wrapper elements"
FilterWrapperFields(fields, reps) ==
    SelectSeq2(fields,
               {i \in 1..Len(fields) :
                  ~ \E r \in 1..Len(reps) : AtOrBelow(fields[i].path, reps[r].path)}, 1)

AnError == [status |-> "error", fields |-> <<>>, repeating_elements |-> <<>>, raw |-> <<>>]

parse_xsd_schema(xsd) ==
    LET st == process_roots_tgt(xsd.types, xsd.roots, 1, AnState0)
        fields == FilterWrapperFields(deduplicate_fields(st.fields), st.reps)
    IN IF fields = <<>> THEN [AnError EXCEPT !.raw = st.fields]
       ELSE [status |-> "ok", fields |-> fields, repeating_elements |-> st.reps,
             raw |-> st.fields]

parse_xml_as_source(xsd) ==
    LET st == process_roots_src(xsd.types, xsd.roots, 1, AnState0)
    IN IF st.overflow THEN [AnError EXCEPT !.status = "stack-overflow"]
       ELSE [status |-> "ok", fields |-> deduplicate_fields(st.fields),
             repeating_elements |-> st.reps, raw |-> st.fields]

-----------------------------------------------------------------------------
(* SpecAnalyze: one XSD description is analyzed, as a source schema or as  *)
(* a target schema.                                                        *)

MaxSeqLen == 2

AnElems ==
    {Elem("x", "string", "1"), Elem("y", "string", "unbounded"),
     Elem("x", "A", "1"), Elem("y", "A", "unbounded"),
     Elem("y", "B", "1"), Elem("x", "B", "unbounded"),
     Elem("", "string", "1"), Elem("x", "", "1"),
     InlineElem("x", "1", CT(TRUE, <<InlineElem("x", "1", CT(FALSE, <<>>))>>)),
     InlineElem("y", "unbounded", CT(TRUE, <<Elem("x", "string", "1")>>))}

AnSeqs == UNION {[1..n -> AnElems] : n \in 0..MaxSeqLen}

AnTypesA == {CT(FALSE, <<>>)} \cup {CT(TRUE, q) : q \in AnSeqs}

AnTypesB == {CT(FALSE, <<>>), CT(TRUE, <<Elem("x", "string", "1")>>),
             CT(TRUE, <<Elem("y", "A", "1")>>)}

AnTypes ==
    {[n \in {"A"} |-> a] : a \in AnTypesA}
    \cup {[n \in {"A", "B"} |-> IF n = "A" THEN a ELSE b] : a \in AnTypesA, b \in AnTypesB}

AnRoots ==
    {<<Elem("R", "A", m)>> : m \in {"1", "unbounded"}}
    \cup {<<Elem("R", "A", m), Elem("S", "B", "1")>> : m \in {"1", "unbounded"}}

\* a description whose types T1 .. T16 nest one inside the other, no type
\* twice: R at depth 0 has type T1, the x of type T16 is at depth 15 and its
\* string child at depth 16
DeepNames == <<"T1", "T2", "T3", "T4", "T5", "T6", "T7", "T8", "T9", "T10", "T11", "T12", "T13", "T14", "T15", "T16">>

DeepTypes ==
    [n \in Range(DeepNames) \cup {"A"} |->
        IF n = "A" THEN CT(FALSE, <<>>)
        ELSE LET i == CHOOSE k \in 1..Len(DeepNames) : DeepNames[k] = n
             IN IF i = Len(DeepNames) THEN CT(TRUE, <<Elem("x", "string", "1")>>)
                ELSE IF i = 1
                THEN CT(TRUE, <<Elem("y", "string", "1"), Elem("x", DeepNames[2], "1")>>)
                ELSE CT(TRUE, <<Elem("x", DeepNames[i + 1], "1")>>)]

AnDeepXsd == [types |-> DeepTypes, roots |-> <<Elem("R", "T1", "1")>>]

AnNone == [status |-> "none", fields |-> <<>>, repeating_elements |-> <<>>, raw |-> <<>>]

AnInit ==
    /\ an_xsd \in {[types |-> t, roots |-> r] : t \in AnTypes, r \in AnRoots}
                 \cup {AnDeepXsd}
    /\ an_mode = "idle"
    /\ an_out = AnNone
    /\ InsIdle /\ CmpIdle /\ AggIdle /\ ValIdle /\ BatIdle

AnalyzeTarget ==
    /\ an_mode = "idle"
    /\ an_mode' = "target"
    /\ an_out' = parse_xsd_schema(an_xsd)
    /\ UNCHANGED <<an_xsd, ins_vars, cmp_vars, agg_vars, val_vars, bat_vars>>

AnalyzeSource ==
    /\ an_mode = "idle"
    /\ an_mode' = "source"
    /\ an_out' = parse_xml_as_source(an_xsd)
    /\ UNCHANGED <<an_xsd, ins_vars, cmp_vars, agg_vars, val_vars, bat_vars>>

AnNext == AnalyzeTarget \/ AnalyzeSource

SpecAnalyze == AnInit /\ [][AnNext]_vars

\* C2: no Field of a returned Schema lies at or below the path of one of its
\* RepeatingGroups, whichever analyzer produced the Schema.
C2_GroupsOwnChildren ==
    an_out.status = "ok" =>
        \A i \in 1..Len(an_out.fields), r \in 1..Len(an_out.repeating_elements) :
            ~ AtOrBelow(an_out.fields[i].path, an_out.repeating_elements[r].path)

NoDuplicatePaths(fields) ==
    \A i, j \in 1..Len(fields) : i # j => fields[i].path # fields[j].path

\* s is a subsequence of raw that keeps, for each of its paths, raw's first
\* element with that path, in raw's order
FirstOccurrencesOf(s, raw) ==
    \E pos \in [1..Len(s) -> 1..Len(raw)] :
        /\ \A i \in 1..Len(s) : s[i] = raw[pos[i]]
        /\ \A i, j \in 1..Len(s) : i < j => pos[i] < pos[j]
        /\ \A i \in 1..Len(s), k \in 1..Len(raw) :
               raw[k].path = s[i].path => pos[i] <= k

\* C3: the Field list of a returned Schema has no two Fields with the same
\* path; each Field kept is the first one the walk produced for its path, and
\* the kept Fields are in the order the walk produced them.
C3_DedupFirstWins ==
    an_out.status = "ok" =>
        /\ NoDuplicatePaths(an_out.fields)
        /\ FirstOccurrencesOf(an_out.fields, an_out.raw)

C3_Witness ==
    /\ an_out.status = "ok"
    /\ ~ NoDuplicatePaths(an_out.raw)
    /\ Len(an_out.fields) >= 2

\* type A has exactly one element of type A, beside scalar leaves with other
\* names, and the description's one root element is a single R of type A
SelfReferential(xsd) ==
    /\ xsd.roots = <<Elem("R", "A", "1")>>
    /\ xsd.types["A"].has_seq
    /\ LET q == xsd.types["A"].seq
       IN /\ Cardinality({i \in 1..Len(q) : q[i].type_ref = "A"}) = 1
          /\ \A i \in 1..Len(q) :
                 /\ q[i].name # ""
                 /\ ~ q[i].inline.present
                 /\ q[i].type_ref \in {"A", "string", ""}
          /\ \A i, j \in 1..Len(q) : i # j => q[i].name # q[j].name

RecursiveFields(fields) == {i \in 1..Len(fields) : fields[i].isRecursive}

\* C4: a description with a self-referential type is analyzed to a Schema, by
\* either analyzer, and that Schema has exactly one Field marked recursive: the
\* element of type A inside A, carrying the type name A.
C4_SelfReferenceTerminates ==
    (an_mode \in {"source", "target"} /\ SelfReferential(an_xsd)) =>
        /\ an_out.status = "ok"
        /\ \E i \in 1..Len(an_out.fields) :
               /\ RecursiveFields(an_out.fields) = {i}
               /\ an_out.fields[i].recursiveType = "A"
               /\ Len(an_out.fields[i].path) = 2

-----------------------------------------------------------------------------
(* Text values: sequences of one-character strings *)

Digits == {"0", "1", "2", "3", "4", "5", "6", "7", "8", "9"}

DigitVal(c) ==
    CASE c = "0" -> 0 [] c = "1" -> 1 [] c = "2" -> 2 [] c = "3" -> 3 [] c = "4" -> 4
      [] c = "5" -> 5 [] c = "6" -> 6 [] c = "7" -> 7 [] c = "8" -> 8 [] c = "9" -> 9

LowerLetters ==
    <<"a", "b", "c", "d", "e", "f", "g", "h", "i", "j", "k", "l", "m",
      "n", "o", "p", "q", "r", "s", "t", "u", "v", "w", "x", "y", "z">>

UpperLetters ==
    <<"A", "B", "C", "D", "E", "F", "G", "H", "I", "J", "K", "L", "M",
      "N", "O", "P", "Q", "R", "S", "T", "U", "V", "W", "X", "Y", "Z">>

IsSpace(c) == c \in {" ", "\t", "\n"}

\* the characters re.sub(r'[\x00-\x08\x0B-\x0C\x0E-\x1F\x7F]', '', ...) removes
\* (written here by name: BEL is \x07, DEL is \x7F)
IsControl(c) == c \in {"<BEL>", "<DEL>"}

UpperChar(c) ==
    IF \E i \in 1..Len(LowerLetters) : LowerLetters[i] = c
    THEN UpperLetters[CHOOSE i \in 1..Len(LowerLetters) : LowerLetters[i] = c]
    ELSE c

LowerChar(c) ==
    IF \E i \in 1..Len(UpperLetters) : UpperLetters[i] = c
    THEN LowerLetters[CHOOSE i \in 1..Len(UpperLetters) : UpperLetters[i] = c]
    ELSE c

\* str.upper() / str.lower()
Upper(v) == [i \in 1..Len(v) |-> UpperChar(v[i])]

Lower(v) == [i \in 1..Len(v) |-> LowerChar(v[i])]

RECURSIVE LStrip(_)
LStrip(v) == IF v # <<>> /\ IsSpace(v[1]) THEN LStrip(Tail(v)) ELSE v

RECURSIVE RStrip(_)
RStrip(v) == IF v # <<>> /\ IsSpace(Last(v)) THEN RStrip(Front(v)) ELSE v

\* str.strip()
Strip(v) == RStrip(LStrip(v))

\* separator.join(values)
RECURSIVE Join(_, _)
Join(sep, vs) ==
    IF vs = <<>> THEN <<>>
    ELSE IF Len(vs) = 1 THEN vs[1]
    ELSE vs[1] \o sep \o Join(sep, Tail(vs))

AllDigits(v) == \A i \in 1..Len(v) : v[i] \in Digits

RECURSIVE ToNat(_)
ToNat(v) == IF v = <<>> THEN 0 ELSE 10 * ToNat(Front(v)) + DigitVal(Last(v))

\* digits with single underscores between them, as int() and float() accept
IsDigitGroup(v) ==
    /\ v # <<>>
    /\ \A i \in 1..Len(v) : v[i] \in Digits \cup {"_"}
    /\ v[1] # "_" /\ Last(v) # "_"
    /\ \A i \in 1..(Len(v) - 1) : ~ (v[i] = "_" /\ v[i + 1] = "_")

\* int(value_str) succeeds: an optional sign and a digit group
IsIntLiteral(v) ==
    LET body == IF v # <<>> /\ v[1] \in {"+", "-"} THEN Tail(v) ELSE v
    IN IsDigitGroup(body)

\* the text without its first character
FirstDigitRun_mut(v) == IF v = <<>> THEN <<>> ELSE Tail(v)

\* re.findall(r'\d+', value_str)[0], or <<>> when there is no digit
FirstDigitRun(v) ==
    LET ds == {i \in 1..Len(v) : v[i] \in Digits}
    IN IF ds = {} THEN <<>>
       ELSE LET a == CHOOSE i \in ds : \A j \in ds : i <= j
                ends == {k \in a..Len(v) :
                           (\A j \in a..k : v[j] \in Digits)
                           /\ (k = Len(v) \/ v[k + 1] \notin Digits)}
            IN SubSeq(v, a, CHOOSE k \in ends : TRUE)

\* re.match(r'^\d{4}-\d{2}-\d{2}$', value_str)
MatchesIsoDate(v) ==
    /\ Len(v) = 10
    /\ v[5] = "-" /\ v[8] = "-"
    /\ \A i \in {1, 2, 3, 4, 6, 7, 9, 10} : v[i] \in Digits

IsLeapYear(y) == (y % 4 = 0 /\ y % 100 # 0) \/ y % 400 = 0

DaysInMonth(y, m) ==
    IF m = 2 THEN (IF IsLeapYear(y) THEN 29 ELSE 28)
    ELSE IF m \in {4, 6, 9, 11} THEN 30 ELSE 31

\* datetime.strptime(value_str, '%Y-%m-%d') succeeds (value_str matches the pattern)
IsCalendarDate(v) ==
    LET y == ToNat(SubSeq(v, 1, 4))
        m == ToNat(SubSeq(v, 6, 7))
        d == ToNat(SubSeq(v, 9, 10))
    IN y >= 1 /\ m \in 1..12 /\ d >= 1 /\ d <= DaysInMonth(y, m)

\* re.match(r'^\d{4}-\d{2}-\d{2}T\d{2}:\d{2}:\d{2}', value_str)
MatchesIsoDateTimePrefix(v) ==
    /\ Len(v) >= 19
    /\ v[5] = "-" /\ v[8] = "-" /\ v[11] = "T" /\ v[14] = ":" /\ v[17] = ":"
    /\ \A i \in {1, 2, 3, 4, 6, 7, 9, 10, 12, 13, 15, 16, 18, 19} : v[i] \in Digits

RemoveControl(v) == SelectSeq(v, LAMBDA c : ~ IsControl(c))

\* the digit groups and at most one point of a float literal, at least one group
IsMantissa(v) ==
    LET ps == {i \in 1..Len(v) : v[i] = "."}
        pt == CHOOSE i \in ps : TRUE
        whole == SubSeq(v, 1, pt - 1)
        frac == SubSeq(v, pt + 1, Len(v))
    IN IF ps = {} THEN IsDigitGroup(v)
       ELSE /\ Cardinality(ps) = 1
            /\ whole = <<>> \/ IsDigitGroup(whole)
            /\ frac = <<>> \/ IsDigitGroup(frac)
            /\ whole # <<>> \/ frac # <<>>

\* float(value_str) succeeds
IsFloatLiteral(v) ==
    LET body == IF v # <<>> /\ v[1] \in {"+", "-"} THEN Tail(v) ELSE v
        low == Lower(body)
        es == {i \in 1..Len(low) : low[i] = "e"}
        e1 == CHOOSE i \in es : \A j \in es : i <= j
    IN \/ low \in {<<"i", "n", "f">>, <<"n", "a", "n">>,
                   <<"i", "n", "f", "i", "n", "i", "t", "y">>}
       \/ es = {} /\ IsMantissa(body)
       \/ es # {} /\ IsMantissa(SubSeq(body, 1, e1 - 1))
                  /\ IsIntLiteral(SubSeq(body, e1 + 1, Len(body)))

\* validate_and_transform_value (non-ASCII digits are outside the alphabet of
\* the values); every exception the body can raise is a ValueError of
\* strptime, int or float, which the branch itself turns into its fallback
validate_and_transform_value(value, field_type) ==
    LET value_str == Strip(value)
    IN IF value = <<>> THEN <<>>
       ELSE IF field_type \in {"string", "xs:string"} THEN RemoveControl(value_str)
       ELSE IF field_type \in {"date", "xs:date"}
       THEN IF MatchesIsoDate(value_str)
            THEN (IF IsCalendarDate(value_str) THEN value_str ELSE <<>>)
            ELSE IF Len(value_str) = 8 /\ AllDigits(value_str)
            THEN SubSeq(value_str, 1, 4) \o <<"-">> \o SubSeq(value_str, 5, 6)
                     \o <<"-">> \o SubSeq(value_str, 7, 8)
            ELSE <<>>
       ELSE IF field_type \in {"dateTime", "xs:dateTime"}
       THEN IF MatchesIsoDateTimePrefix(value_str) THEN value_str ELSE <<>>
       ELSE IF field_type \in {"int", "integer", "xs:int", "xs:integer"}
       THEN IF IsIntLiteral(value_str) THEN value_str ELSE FirstDigitRun(value_str)
       ELSE IF field_type \in {"decimal", "float", "double",
                               "xs:decimal", "xs:float", "xs:double"}
       THEN IF IsFloatLiteral(value_str) THEN value_str ELSE <<>>
       ELSE IF field_type \in {"boolean", "xs:boolean"}
       THEN IF Lower(value_str) \in {<<"t", "r", "u", "e">>, <<"1">>,
                                     <<"y", "e", "s">>, <<"j", "a">>}
            THEN <<"t", "r", "u", "e">>
            ELSE IF Lower(value_str) \in {<<"f", "a", "l", "s", "e">>, <<"0">>,
                                          <<"n", "o">>, <<"n", "e", "j">>}
            THEN <<"f", "a", "l", "s", "e">>
            ELSE <<>>
       ELSE RemoveControl(value_str)

MAX_REGEX_LENGTH == 500

StartsWithAt(v, lit, i) == i + Len(lit) - 1 <= Len(v) /\ SubSeq(v, i, i + Len(lit) - 1) = lit

\* value.replace(from_val, to_val) for a non-empty from_val
RECURSIVE ReplaceAll(_, _, _)
ReplaceAll(v, from_val, to_val) ==
    IF v = <<>> THEN <<>>
    ELSE IF StartsWithAt(v, from_val, 1)
    THEN to_val \o ReplaceAll(SubSeq(v, Len(from_val) + 1, Len(v)), from_val, to_val)
    ELSE <<v[1]>> \o ReplaceAll(Tail(v), from_val, to_val)

\* the characters that are not literal in a regular expression or in its
\* replacement
RegexMeta == {".", "^", "$", "*", "+", "?", "{", "}", "[", "]", "(", ")", "|", "\\"}

IsLiteralText(v) == \A i \in 1..Len(v) : v[i] \notin RegexMeta

\* params.get(key) or '': None and '' both give ''
OrEmpty(opt) == IF opt = <<>> THEN <<>> ELSE opt[1]

\* the 'replace' branch
TransformReplace(value, params) ==
    LET from_val == OrEmpty(params.from_)
        to_val == OrEmpty(params.to)
    IN IF from_val # <<>> /\ Len(from_val) > MAX_REGEX_LENGTH THEN value
       ELSE IF from_val # <<>> THEN ReplaceAll(value, from_val, to_val)
       ELSE value

\* the 'regex' branch. re.sub is modelled for a pattern and a replacement of
\* literal characters, where it replaces every occurrence; the one pattern
\* with a metacharacter that is used is "(", which re.sub rejects (the
\* except branch returns the value)
TransformRegex(value, params) ==
    LET pattern == OrEmpty(params.pattern)
        replacement == OrEmpty(params.replacement)
    IN IF pattern # <<>> /\ Len(pattern) > MAX_REGEX_LENGTH THEN value
       ELSE IF pattern # <<>>
       THEN (IF IsLiteralText(pattern) THEN ReplaceAll(value, pattern, replacement)
             ELSE value)
       ELSE value

\* the 'format' branch without split_at, for a format string that is "{}"
\* between literal text: format_string.format(value)
TransformFormat(value, params) ==
    LET format_string == OrEmpty(params.format)
    IN IF format_string # <<>> THEN ReplaceAll(format_string, <<"{", "}">>, value)
       ELSE value

\* the 'sanitize' branch with the default class a-zA-Z0-9\s\-_.,
TransformSanitize(value) ==
    SelectSeq(value, LAMBDA c : \/ c \in Digits \/ IsSpace(c) \/ c \in {"-", "_", ".", ","}
                                \/ UpperChar(c) # c \/ LowerChar(c) # c)

\* every transform leaves the value as it is
apply_transform_mut(value, transform, params) == value

\* apply_transform; the final "return value" serves every name it does not know
apply_transform(value, transform, params) ==
    IF transform = "none" THEN value
    ELSE IF transform = "uppercase" THEN Upper(value)
    ELSE IF transform = "lowercase" THEN Lower(value)
    ELSE IF transform = "trim" THEN Strip(value)
    ELSE IF transform = "replace" THEN TransformReplace(value, params)
    ELSE IF transform = "regex" THEN TransformRegex(value, params)
    ELSE IF transform = "format" THEN TransformFormat(value, params)
    ELSE IF transform = "default"
    THEN (IF value # <<>> THEN value ELSE OrEmpty(params.defaultValue))
    ELSE IF transform = "sanitize" THEN TransformSanitize(value)
    ELSE value

\* the chain applied from its last transform to its first
RECURSIVE apply_transforms_mut(_, _, _)
apply_transforms_mut(value, ts, params) ==
    IF ts = <<>> THEN value
    ELSE apply_transforms_mut(
             IF Last(ts) # "" /\ Last(ts) # "none"
             THEN apply_transform(value, Last(ts), params) ELSE value,
             Front(ts), params)

\* "for transform in transforms_to_apply: if transform and transform != 'none'"
RECURSIVE apply_transforms(_, _, _)
apply_transforms(value, ts, params) ==
    IF ts = <<>> THEN value
    ELSE apply_transforms(
             IF ts[1] # "" /\ ts[1] # "none"
             THEN apply_transform(value, ts[1], params) ELSE value,
             Tail(ts), params)

-----------------------------------------------------------------------------
(* Dictionaries (insertion-ordered lists of key/value pairs), optional      *)
(* values and the records of a mapping configuration                        *)

None == <<>>

Some(v) == <<v>>

DictHas(d, k) == \E i \in 1..Len(d) : d[i].k = k

DictGet(d, k) == d[CHOOSE i \in 1..Len(d) : d[i].k = k].v

\* d[k] = v: an existing key keeps its position
DictSet(d, k, v) ==
    IF DictHas(d, k)
    THEN [i \in 1..Len(d) |-> IF d[i].k = k THEN [k |-> k, v |-> v] ELSE d[i]]
    ELSE Append(d, [k |-> k, v |-> v])

DictDel(d, k) == SelectSeq(d, LAMBDA e : e.k # k)

\* str.lower() of an element or column name
LowerName(name) ==
    CASE name = "Name" -> "name"
      [] name = "NAME" -> "name"
      [] name = "Age" -> "age"
      [] name = "City" -> "city"
      [] name = "Qty" -> "qty"
      [] name = "Kind" -> "kind"
      [] name = "Item" -> "item"
      [] name = "Order" -> "order"
      [] name = "C" -> "c"
      [] OTHER -> name

NotFound == [found |-> FALSE, value |-> <<>>]

Found(v) == [found |-> TRUE, value |-> v]

\* PathMatcher.find_value: NotFound stands for the None it returns
find_value(data, field_path, field_name) ==
    LET partials == {i \in 1..Len(field_path) :
                       DictHas(data, SubSeq(field_path, i, Len(field_path)))}
        ci == {i \in 1..Len(data) : LowerName(Last(data[i].k)) = LowerName(field_name)}
    IN IF DictHas(data, field_path) THEN Found(DictGet(data, field_path))
       ELSE IF field_name # "" /\ DictHas(data, <<field_name>>)
       THEN Found(DictGet(data, <<field_name>>))
       ELSE IF partials # {}
       THEN LET first == CHOOSE i \in partials : \A j \in partials : i <= j
            IN Found(DictGet(data, SubSeq(field_path, first, Len(field_path))))
       ELSE IF field_name # "" /\ ci # {}
       THEN Found(data[CHOOSE i \in ci : \A j \in ci : i <= j].v)
       ELSE NotFound

\* class MappingParams: every field is optional and None by default
MappingParams(separator, mergeSeparator) ==
    [separator |-> separator, from_ |-> None, to |-> None, defaultValue |-> None,
     pattern |-> None, replacement |-> None, format |-> None, split_at |-> None,
     allowed_chars |-> None, mergeSeparator |-> mergeSeparator]

\* class Mapping with its defaults; a direct mapping sets none of the
\* container fields
Mapping(id, source, target, transforms, params) ==
    [id |-> id, source |-> source, target |-> target, transform |-> "",
     transforms |-> transforms, params |-> params, aggregation |-> "foreach",
     loop_element_path |-> None, target_wrapper_path |-> None,
     is_container |-> FALSE, parent_repeat_container |-> "",
     repeat_to_single |-> FALSE, conditions |-> <<>>]

Constant(id, value) == [id |-> id, value |-> value]

\* src_id.startswith('const-')
IsConstId(id) == id \in {"const-1", "const-2", "const-9"}

StructSchema(fields, repeating_elements) ==
    [fields |-> fields, repeating_elements |-> repeating_elements]

\* rep_elem.get('wrapper_path') or rep_elem.get('path')
WrapperPathOf(rep) == IF rep.wrapper_path # <<>> THEN rep.wrapper_path ELSE rep.path

RECURSIVE RepFields(_)
RepFields(reps) == IF reps = <<>> THEN <<>> ELSE reps[1].fields \o RepFields(Tail(reps))

\* source_fields_by_id / target_fields_by_id: the schema's Fields, then the
\* Fields of its repeating elements; a later entry replaces an earlier one
FieldsById(schema, id) ==
    LET all == schema.fields \o RepFields(schema.repeating_elements)
        hits == {i \in 1..Len(all) : all[i].id = id}
    IN IF hits = {} THEN [found |-> FALSE]
       ELSE [found |-> TRUE, field |-> all[CHOOSE i \in hits : \A j \in hits : j <= i]]

ConstById(constants, id) ==
    LET hits == {i \in 1..Len(constants) : constants[i].id = id}
    IN IF hits = {} THEN [found |-> FALSE]
       ELSE [found |-> TRUE, const |-> constants[CHOOSE i \in hits : \A j \in hits : j <= i]]

\* every source id resolves to a placeholder text
ResolveDirectSource_mut(row, src_id, source_schema, constants) == <<"?">>

\* one source id of a direct mapping: the value appended to source_values
ResolveDirectSource(row, src_id, source_schema, constants) ==
    IF IsConstId(src_id)
    THEN LET c == ConstById(constants, src_id)
         IN IF c.found THEN c.const.value ELSE <<>>
    ELSE LET sf == FieldsById(source_schema, src_id)
         IN IF ~ sf.found THEN <<>>
            ELSE LET r == find_value(row, sf.field.path, sf.field.name)
                 IN IF r.found THEN r.value ELSE <<>>

\* transforms_to_apply: mapping.transforms, else [mapping.transform]
TransformsToApply(mapping) ==
    IF mapping.transforms # <<>> THEN mapping.transforms
    ELSE IF mapping.transform # "" THEN <<mapping.transform>>
    ELSE <<>>

\* the concat step and the remaining chain, applied to the resolved values
TransformedValue(mapping, source_values) ==
    LET ts == TransformsToApply(mapping)
        has_concat == \E i \in 1..Len(ts) : ts[i] = "concat"
        separator == IF mapping.params.separator # None
                     THEN mapping.params.separator[1] ELSE <<" ">>
        value == IF has_concat THEN Join(separator, source_values)
                 ELSE IF source_values # <<>> THEN source_values[1] ELSE <<>>
        rest == IF has_concat THEN SelectSeq(ts, LAMBDA t : t # "concat") ELSE ts
    IN apply_transforms(value, rest, mapping.params)

RECURSIVE apply_mappings_from(_, _, _, _, _, _)
apply_mappings_from(row, mappings, source_schema, target_schema, constants, result) ==
    IF mappings = <<>> THEN result
    ELSE LET mapping == mappings[1]
             source_values == [i \in 1..Len(mapping.source) |->
                                 ResolveDirectSource(row, mapping.source[i],
                                                     source_schema, constants)]
             value == TransformedValue(mapping, source_values)
             tf == FieldsById(target_schema, mapping.target)
             result2 ==
                 IF mapping.is_container \/ mapping.parent_repeat_container # "" THEN result
                 ELSE IF tf.found
                 THEN DictSet(result, tf.field.path,
                              validate_and_transform_value(value, tf.field.type))
                 ELSE result
         IN apply_mappings_from(row, Tail(mappings), source_schema, target_schema,
                                constants, result2)

apply_mappings_to_row(row, mappings, source_schema, target_schema, constants) ==
    apply_mappings_from(row, mappings, source_schema, target_schema, constants, <<>>)

-----------------------------------------------------------------------------
(* create_xml_from_data *)

\* parent.remove(child)
RemoveChild(t, parent, child) ==
    [t EXCEPT ![parent].kids = SelectSeq(@, LAMBDA k : k # child)]

\* no wrapper path is skipped
RepeatingWrapperPaths_mut(schema) == {}

\* the wrapper paths create_xml_from_data skips
RepeatingWrapperPaths(schema) ==
    {WrapperPathOf(schema.repeating_elements[i]) :
        i \in 1..Len(schema.repeating_elements)} \ {<<>>}

\* the loop "for i in range(len(path_parts))": cs is [nodes, root, elements],
\* root is 0 while no element has been created
RECURSIVE CreatePathElements(_, _, _, _)
CreatePathElements(cs, path_parts, wrappers, i) ==
    IF i >= Len(path_parts) THEN cs
    ELSE LET partial_path == SubSeq(path_parts, 1, i + 1)
             parent_path == SubSeq(path_parts, 1, i)
             elem_name == path_parts[i + 1]
             new_id == Len(cs.nodes) + 1
             cs2 ==
                 IF partial_path \in wrappers \/ DictHas(cs.elements, partial_path) THEN cs
                 ELSE IF i = 0
                 THEN [nodes |-> Append(cs.nodes, Node(elem_name, NoText)),
                       root |-> new_id,
                       elements |-> DictSet(cs.elements, partial_path, new_id)]
                 ELSE IF DictHas(cs.elements, parent_path)
                 THEN LET parent == DictGet(cs.elements, parent_path)
                      IN [nodes |-> AddChild(cs.nodes, parent, Len(cs.nodes[parent].kids),
                                             elem_name, NoText),
                          root |-> cs.root,
                          elements |-> DictSet(cs.elements, partial_path, new_id)]
                 ELSE cs
         IN CreatePathElements(cs2, path_parts, wrappers, i + 1)

\* the body of "for field in sorted_fields"
ComposeField(cs, field, data, wrappers) ==
    LET value == IF DictHas(data, field.path) THEN DictGet(data, field.path) ELSE <<>>
        field_is_repeatable == field.repeatable \/ field.maxOccurs = "unbounded"
        is_in_repeating_wrapper == \E w \in wrappers : AtOrBelow(field.path, w)
        parent_path == Front(field.path)
        cs2 == CreatePathElements(cs, field.path, wrappers, 0)
        has_leaf == DictHas(cs2.elements, field.path)
        leaf_elem == DictGet(cs2.elements, field.path)
        has_parent == DictHas(cs2.elements, parent_path)
        parent == DictGet(cs2.elements, parent_path)
    IN IF is_in_repeating_wrapper THEN cs
       ELSE IF value = <<>> THEN cs
       ELSE IF ~ field_is_repeatable /\ has_leaf
       THEN IF value # <<>>
            THEN [cs2 EXCEPT !.nodes[leaf_elem].text = value]
            ELSE IF field.type \in {"date", "xs:date", "dateTime", "xs:dateTime"}
            THEN IF has_parent /\ leaf_elem \in Range(cs2.nodes[parent].kids)
                 THEN [cs2 EXCEPT !.nodes = RemoveChild(@, parent, leaf_elem),
                                  !.elements = DictDel(@, field.path)]
                 ELSE cs2
            ELSE [cs2 EXCEPT !.nodes[leaf_elem].text = <<>>]
       ELSE IF field_is_repeatable /\ has_leaf
       THEN [cs2 EXCEPT
                !.nodes = IF has_parent /\ leaf_elem \in Range(cs2.nodes[parent].kids)
                          THEN RemoveChild(@, parent, leaf_elem) ELSE @,
                !.elements = DictDel(@, field.path)]
       ELSE cs2

RECURSIVE ComposeFields(_, _, _, _)
ComposeFields(cs, sorted_fields, data, wrappers) ==
    IF sorted_fields = <<>> THEN cs
    ELSE ComposeFields(ComposeField(cs, sorted_fields[1], data, wrappers),
                       Tail(sorted_fields), data, wrappers)

\* the element tree below node n, renumbered in document order with n as 1
RECURSIVE SubtreeSize(_, _)
SubtreeSize(nodes, n) ==
    1 + SeqSum([i \in 1..Len(nodes[n].kids) |-> SubtreeSize(nodes, nodes[n].kids[i])])

RECURSIVE Subtree(_, _, _)
Subtree(nodes, n, base) ==
    LET ks == nodes[n].kids
        offs == [i \in 1..Len(ks) |->
                   base + 1 + SeqSum([j \in 1..(i - 1) |-> SubtreeSize(nodes, ks[j])])]
        RECURSIVE Below(_)
        Below(i) == IF i > Len(ks) THEN <<>>
                    ELSE Subtree(nodes, ks[i], offs[i]) \o Below(i + 1)
    IN <<[tag |-> nodes[n].tag, text |-> nodes[n].text, kids |-> offs]>> \o Below(1)

create_xml_from_data(data, schema, root_element_name) ==
    LET cs == ComposeFields([nodes |-> <<>>, root |-> 0, elements |-> <<>>],
                            SortByOrder(schema.fields), data,
                            RepeatingWrapperPaths(schema))
    IN IF cs.root = 0 THEN NewTree(root_element_name)
       ELSE Subtree(cs.nodes, cs.root, 1)

-----------------------------------------------------------------------------
(* SpecCompose: one record goes through the direct mapping engine and the   *)
(* composer, as batch_process does for every row of a tabular source.       *)

MaxMappings == 2

CmpSourceSchema ==
    StructSchema(<<Fld("s-name", <<"Name">>, "string", FALSE, 0),
                   Fld("s-age", <<"Age">>, "string", FALSE, 1)>>, <<>>)

CmpConstants == <<Constant("const-1", <<"B", "a", "n", "n">>)>>

CmpNameValues == {<<"A", "n", "n">>, <<" ", "a", "n">>, <<>>}

CmpAgeValues ==
    {<<"3", "0">>, <<"a", "3">>,
     <<"2", "0", "2", "3", "/", "1", "3", "/", "4", "0">>,
     <<"2", "0", "2", "3", "1", "3", "4", "0">>}

\* a record has a Name column and may have an Age column
CmpRows ==
    {<<[k |-> <<"Name">>, v |-> n]>> : n \in CmpNameValues}
    \cup {<<[k |-> <<"Name">>, v |-> n], [k |-> <<"Age">>, v |-> a]>> :
            n \in CmpNameValues, a \in CmpAgeValues}

TName == Fld("t-name", <<"Person", "Name">>, "string", FALSE, 1)

TAge == Fld("t-age", <<"Person", "Age">>, "int", FALSE, 2)

TBorn == Fld("t-born", <<"Person", "Born">>, "date", FALSE, 3)

TTag == Fld("t-tag", <<"Person", "Tag">>, "string", TRUE, 4)

TCity == Fld("t-city", <<"Address", "City">>, "string", FALSE, 6)

TLine ==
    [path |-> <<"Person", "Line">>, wrapper_path |-> <<"Person", "Line">>, order |-> 7,
     fields |-> <<Fld("t-qty", <<"Person", "Line", "Qty">>, "string", FALSE, 8)>>]

\* a repeatable Field that is itself a top-level element
TTop == Fld("t-tag", <<"Tag">>, "string", TRUE, 1)

\* a child of the group Person/Line that is also listed among the Fields
TQty == Fld("t-qty", <<"Person", "Line", "Qty">>, "string", FALSE, 8)

CmpTargetSchemas ==
    {StructSchema(<<TName, TAge>>, <<>>),
     StructSchema(<<TTop>>, <<>>),
     StructSchema(<<TName, TBorn, TTag, TQty>>, <<TLine>>),
     StructSchema(<<TAge, TName>>, <<>>),
     StructSchema(<<TName, TAge, TBorn, TTag>>, <<TLine>>),
     StructSchema(<<TName, TAge, TCity>>, <<>>),
     StructSchema(<<TCity, TName, TTag>>, <<TLine>>)}

NoParams == MappingParams(None, None)

CmpMappingPool ==
    {Mapping("m-name", <<"s-name">>, "t-name", <<"uppercase">>, NoParams),
     Mapping("m-age", <<"s-age">>, "t-age", <<>>, NoParams),
     Mapping("m-born", <<"s-age">>, "t-born", <<>>, NoParams),
     Mapping("m-tag", <<"s-name">>, "t-tag", <<"trim">>, NoParams),
     Mapping("m-city", <<"const-1">>, "t-city", <<>>, NoParams),
     Mapping("m-qty", <<"s-age">>, "t-qty", <<>>, NoParams),
     Mapping("m-cat", <<"s-name", "s-age">>, "t-name", <<"concat", "trim">>,
             MappingParams(Some(<<"-">>), None)),
     Mapping("m-lost", <<"s-zz">>, "t-name", <<>>, NoParams)}

CmpMappingLists ==
    UNION {[1..n -> CmpMappingPool] : n \in 0..MaxMappings}

CmpNone == [done |-> FALSE, result |-> <<>>, tree |-> <<>>]

CmpInit ==
    /\ cmp_in \in [row : CmpRows, mappings : CmpMappingLists, schema : CmpTargetSchemas]
    /\ cmp_out = CmpNone
    /\ InsIdle /\ AnIdle /\ AggIdle /\ ValIdle /\ BatIdle

\* batch_process, one row: apply_mappings_to_row, then create_xml_from_data
ProcessRecord ==
    /\ ~ cmp_out.done
    /\ LET transformed == apply_mappings_to_row(cmp_in.row, cmp_in.mappings,
                                                CmpSourceSchema, cmp_in.schema,
                                                CmpConstants)
       IN cmp_out' = [done |-> TRUE, result |-> transformed,
                      tree |-> create_xml_from_data(transformed, cmp_in.schema, "Record")]
    /\ UNCHANGED <<cmp_in, ins_vars, an_vars, agg_vars, val_vars, bat_vars>>

CmpNext == ProcessRecord

SpecCompose == CmpInit /\ [][CmpNext]_vars

\* the ids of the nodes reached from the root by the slash path
RECURSIVE NodesAt(_, _, _)
NodesAt(t, n, rest) ==
    IF rest = <<>> THEN {n}
    ELSE UNION {NodesAt(t, k, Tail(rest)) :
                  k \in {c \in Range(t[n].kids) : t[c].tag = rest[1]}}

NodesAtPath(t, path) ==
    IF t[1].tag = path[1] THEN NodesAt(t, 1, Tail(path)) ELSE {}

InRepeatingGroup(schema, field) ==
    \E w \in RepeatingWrapperPaths(schema) : AtOrBelow(field.path, w)

\* the Fields the composer owns: not repeatable, outside every RepeatingGroup
ComposedFields(schema) ==
    {schema.fields[i] : i \in {j \in 1..Len(schema.fields) :
        /\ ~ schema.fields[j].repeatable
        /\ ~ InRepeatingGroup(schema, schema.fields[j])}}

ResultValue(result, path) == IF DictHas(result, path) THEN DictGet(result, path) ELSE <<>>

\* C9: after a record has been mapped and composed, every non-repeatable
\* target Field outside every RepeatingGroup whose transformed, coerced
\* value is non-empty appears in the composed tree at its path, once, with
\* that value as its text.
C9_MappedFieldsComposed ==
    cmp_out.done =>
        \A f \in ComposedFields(cmp_in.schema) :
            ResultValue(cmp_out.result, f.path) # <<>> =>
                /\ Cardinality(NodesAtPath(cmp_out.tree, f.path)) = 1
                /\ \A n \in NodesAtPath(cmp_out.tree, f.path) :
                       cmp_out.tree[n].text = ResultValue(cmp_out.result, f.path)

\* C10: after a record has been composed, every non-repeatable Field outside
\* every RepeatingGroup that has no resolved value and whose type is not
\* date or dateTime is present in the tree as an element with empty text.
C10_EmptyElementEmitted ==
    cmp_out.done =>
        \A f \in ComposedFields(cmp_in.schema) :
            (/\ ResultValue(cmp_out.result, f.path) = <<>>
             /\ f.type \notin {"date", "xs:date", "dateTime", "xs:dateTime"}) =>
                \E n \in NodesAtPath(cmp_out.tree, f.path) : cmp_out.tree[n].text = <<>>

-----------------------------------------------------------------------------
(* Source documents, the loop-element search and the Conditions *)

\* an element of the source document; attrib is a dictionary
SrcNode(tag, text, attrib, kids) ==
    [tag |-> tag, text |-> text, attrib |-> attrib, kids |-> kids]

SrcParents(src, n) == {p \in 1..Len(src) : n \in Range(src[p].kids)}

RECURSIVE SrcAncestors(_, _)
SrcAncestors(src, n) ==
    SrcParents(src, n) \cup UNION {SrcAncestors(src, p) : p \in SrcParents(src, n)}

\* n is selected by //*[local-name()=parts[1]]//...//*[local-name()=parts[k]]
RECURSIVE XPathMatch(_, _, _, _)
XPathMatch(src, parts, n, k) ==
    /\ src[n].tag = parts[k]
    /\ k = 1 \/ \E a \in SrcAncestors(src, n) : XPathMatch(src, parts, a, k - 1)

\* the ids of a set of nodes in document order (ids are assigned in
\* document order)
RECURSIVE InDocOrder(_)
InDocOrder(ns) ==
    IF ns = {} THEN <<>>
    ELSE LET n == CHOOSE x \in ns : \A y \in ns : x <= y
         IN <<n>> \o InDocOrder(ns \ {n})

\* loop_elements: the namespace-agnostic XPath, then the simplified XPath
\* .//*[local-name()=last_part] when the first finds nothing
LoopElements(src, path_parts) ==
    LET full == {n \in 1..Len(src) : XPathMatch(src, path_parts, n, Len(path_parts))}
        simple == {n \in 2..Len(src) : src[n].tag = Last(path_parts)}
    IN IF full # {} THEN InDocOrder(full) ELSE InDocOrder(simple)

\* the partial keys parts[i:] for i in range(1, len(parts) - 1), each with
\* the given suffix, set to val
RECURSIVE StorePartials(_, _, _, _, _)
StorePartials(d, parts, suffix, val, i) ==
    IF i > Len(parts) - 2 THEN d
    ELSE StorePartials(DictSet(d, SubSeq(parts, i + 1, Len(parts)) \o suffix, val),
                       parts, suffix, val, i + 1)

RECURSIVE StoreAttribs(_, _, _, _)
StoreAttribs(d, current_path, attrib, a) ==
    IF a > Len(attrib) THEN d
    ELSE LET d1 == DictSet(d, current_path \o <<attrib[a].k>>, attrib[a].v)
             d2 == StorePartials(d1, current_path, <<attrib[a].k>>, attrib[a].v, 1)
         IN StoreAttribs(d2, current_path, attrib, a + 1)

\* extract_from_element(elem, path) adding to instance_data; an attribute
\* name carries its @
RECURSIVE extract_from_element(_, _, _, _)
extract_from_element(src, elem, path, instance_data) ==
    LET current_path == path \o <<src[elem].tag>>
        text == Strip(src[elem].text)
        d1 == IF text # <<>>
              THEN StorePartials(DictSet(instance_data, current_path, text),
                                 current_path, <<>>, text, 1)
              ELSE instance_data
        d2 == StoreAttribs(d1, current_path, src[elem].attrib, 1)
        RECURSIVE Children(_, _)
        Children(d, i) ==
            IF i > Len(src[elem].kids) THEN d
            ELSE Children(extract_from_element(src, src[elem].kids[i], current_path, d),
                          i + 1)
    IN Children(d2, 1)

\* element_data: the loop element's attributes and its children's texts
RECURSIVE ChildValues(_, _, _, _)
ChildValues(src, loop_elem, d, i) ==
    IF i > Len(src[loop_elem].kids) THEN d
    ELSE LET child == src[src[loop_elem].kids[i]]
             text == Strip(child.text)
         IN ChildValues(src, loop_elem,
                        IF text # <<>> THEN DictSet(d, <<child.tag>>, text) ELSE d,
                        i + 1)

RECURSIVE AttribValues(_, _, _)
AttribValues(attrib, d, a) ==
    IF a > Len(attrib) THEN d
    ELSE AttribValues(attrib, DictSet(d, <<attrib[a].k>>, attrib[a].v), a + 1)

ElementData(src, loop_elem) ==
    ChildValues(src, loop_elem, AttribValues(src[loop_elem].attrib, <<>>, 1), 1)

MappingCondition(field, operator, value) ==
    [field |-> field, operator |-> operator, value |-> value]

\* field_value.startswith(v)
StartsWith(field_value, v) ==
    Len(v) <= Len(field_value) /\ SubSeq(field_value, 1, Len(v)) = v

\* v in field_value
Contains(field_value, v) ==
    \E i \in 1..(Len(field_value) - Len(v) + 1) :
        SubSeq(field_value, i, i + Len(v) - 1) = v

\* evaluate_condition: "true", "false", or "raise" for the TypeError of a
\* contains/startswith comparison whose value is None. The regex patterns
\* of the model are literal texts, which re.match finds at the start.
evaluate_condition(condition, element_data) ==
    LET has == DictHas(element_data, <<condition.field>>)
        field_value == IF has THEN DictGet(element_data, <<condition.field>>) ELSE <<>>
        B(b) == IF b THEN "true" ELSE "false"
    IN IF condition.operator = "exists" THEN B(has /\ field_value # <<>>)
       ELSE IF condition.operator = "equals"
       THEN B(condition.value # None /\ field_value = condition.value[1])
       ELSE IF condition.operator = "contains"
       THEN IF condition.value = None THEN "raise"
            ELSE B(Contains(field_value, condition.value[1]))
       ELSE IF condition.operator = "startswith"
       THEN IF condition.value = None THEN "raise"
            ELSE B(StartsWith(field_value, condition.value[1]))
       ELSE IF condition.operator = "regex"
       THEN IF condition.value = None THEN "false"
            ELSE IF Len(condition.value[1]) > MAX_REGEX_LENGTH THEN "false"
            ELSE B(StartsWith(field_value, condition.value[1]))
       ELSE "false"

\* evaluate_conditions: AND, stopping at the first condition that fails
RECURSIVE evaluate_conditions(_, _)
evaluate_conditions(conditions, element_data) ==
    IF conditions = <<>> THEN "true"
    ELSE LET r == evaluate_condition(conditions[1], element_data)
         IN IF r = "true" THEN evaluate_conditions(Tail(conditions), element_data)
            ELSE r

-----------------------------------------------------------------------------
(* apply_repeating_mappings_to_xml                                          *)
(* The run state ag is [tree, prov, total, raised]. prov is bookkeeping of  *)
(* the model: prov[n] is the set of loop positions idx (1-based) of the     *)
(* source instances whose processing created or filled node n; it is empty  *)
(* for the nodes the composer created.                                      *)

NoInstances == {}

\* the new nodes of tree t get the instances from
WithProv(ag, t, from) ==
    [ag EXCEPT !.tree = t,
               !.prov = @ \o [i \in 1..(Len(t) - Len(ag.tree)) |-> from]]

\* source_values of one child mapping: an unknown Field id appends nothing
RECURSIVE ResolveChildSources(_, _, _, _)
ResolveChildSources(instance_data, source, source_schema, constants) ==
    IF source = <<>> THEN <<>>
    ELSE LET src_id == source[1]
             c == ConstById(constants, src_id)
             sf == FieldsById(source_schema, src_id)
             r == find_value(instance_data, sf.field.path, sf.field.name)
             here == IF IsConstId(src_id)
                     THEN <<IF c.found THEN c.const.value ELSE <<>>>>
                     ELSE IF ~ sf.found THEN <<>>
                     ELSE <<IF r.found THEN r.value ELSE <<>>>>
         IN here \o ResolveChildSources(instance_data, Tail(source), source_schema,
                                        constants)

\* the value of one child mapping for one instance, after its transforms
ChildValue(mapping, instance_data, source_schema, constants) ==
    TransformedValue(mapping,
                     ResolveChildSources(instance_data, mapping.source, source_schema,
                                         constants))

\* NORMAL: "for part in relative_parts[:-1]" below the wrapper, creating a
\* missing element with SubElement
RECURSIVE NavigateRelative(_, _, _)
NavigateRelative(t, current_elem, parts) ==
    IF Len(parts) <= 1 THEN [tree |-> t, elem |-> current_elem]
    ELSE LET found == FindChild(t, current_elem, parts[1])
             t2 == IF found = 0
                   THEN AddChild(t, current_elem, Len(t[current_elem].kids), parts[1], NoText)
                   ELSE t
             child == IF found = 0 THEN Len(t) + 1 ELSE found
         IN NavigateRelative(t2, child, Tail(parts))

\* NORMAL: set the child mapping's element within the wrapper
SetWithinWrapper(ag, wrapper_elem, target_parts, field, validated_value, idx) ==
    LET relative_parts == SubSeq(field.path, Len(target_parts) + 1, Len(field.path))
        nav == NavigateRelative(ag.tree, wrapper_elem, relative_parts)
        final_tag == IF relative_parts # <<>> THEN Last(relative_parts) ELSE field.name
        found == FindChild(nav.tree, nav.elem, final_tag)
        t2 == IF found = 0
              THEN AddChild(nav.tree, nav.elem, Len(nav.tree[nav.elem].kids), final_tag,
                            validated_value)
              ELSE [nav.tree EXCEPT ![found].text = validated_value]
        ag2 == WithProv(ag, t2, {idx})
    IN IF found = 0 THEN ag2
       ELSE [ag2 EXCEPT !.prov[found] = @ \cup {idx}]

\* "for mapping in child_mappings" of one accepted instance; env holds the
\* arguments of the run: the source document src, the two Schemas, the
\* constants, and the order tracker's path list fp
RECURSIVE ProcessChildMappings(_, _, _, _, _, _, _, _)
ProcessChildMappings(env, ag, child_mappings, instance_data, idx, is_repeat_to_single, wrapper_elem, target_parts) ==
    IF child_mappings = <<>> THEN ag
    ELSE LET mapping == child_mappings[1]
             value == ChildValue(mapping, instance_data, env.source_schema, env.constants)
             tf == FieldsById(env.target_schema, mapping.target)
             validated_value == validate_and_transform_value(value, tf.field.type)
             ag2 ==
                 IF ~ tf.found THEN ag
                 ELSE IF is_repeat_to_single
                 THEN [WithProv(ag, InsertLeafOrdered(env.fp, ag.tree, tf.field.path,
                                                      validated_value), {idx})
                          EXCEPT !.total = @ + 1]
                 ELSE SetWithinWrapper(ag, wrapper_elem, target_parts, tf.field,
                                       validated_value, idx)
         IN ProcessChildMappings(env, ag2, Tail(child_mappings), instance_data, idx,
                                 is_repeat_to_single, wrapper_elem, target_parts)

\* the Conditions of the container on one loop element
InstanceVerdict(src, loop_elem, container) ==
    IF container.conditions # <<>>
    THEN evaluate_conditions(container.conditions, ElementData(src, loop_elem))
    ELSE "true"

\* the body of "for idx, loop_elem in enumerate(elements_to_process)"; pos is
\* the instance's position in loop_elements
ProcessInstance(env, ag, loop_elem, pos, container, child_mappings, is_repeat_to_single) ==
    LET instance_data == extract_from_element(env.src, loop_elem, <<>>, <<>>)
        verdict == InstanceVerdict(env.src, loop_elem, container)
        has_wrapper == container.target_wrapper_path # None
        normal == has_wrapper /\ ~ is_repeat_to_single
        target_parts == IF normal THEN container.target_wrapper_path[1] ELSE <<>>
        ag1 == IF normal
               THEN [WithProv(ag, InsertLeafOrdered(env.fp, ag.tree, target_parts, NoText),
                              {pos})
                        EXCEPT !.total = @ + 1]
               ELSE ag
        wrapper_elem == IF normal THEN Len(ag1.tree) ELSE 1
    IN IF verdict = "raise" THEN [ag EXCEPT !.raised = TRUE]
       ELSE IF verdict = "false" THEN ag
       ELSE ProcessChildMappings(env, ag1, child_mappings, instance_data, pos,
                                 is_repeat_to_single, wrapper_elem, target_parts)

\* the instance loop of the repeat, first and last modes; an exception ends it
RECURSIVE ProcessInstances(_, _, _, _, _, _, _)
ProcessInstances(env, ag, positions, loop_elements, container, child_mappings, is_repeat_to_single) ==
    IF positions = <<>> \/ ag.raised THEN ag
    ELSE ProcessInstances(
             env,
             ProcessInstance(env, ag, loop_elements[positions[1]], positions[1],
                             container, child_mappings, is_repeat_to_single),
             Tail(positions), loop_elements, container, child_mappings,
             is_repeat_to_single)

\* merge: the values of one instance appended to merged_values, a dictionary
\* from mapping id to a list of [value, pos]
RECURSIVE CollectInstance(_, _, _, _, _)
CollectInstance(env, merged_values, child_mappings, instance_data, pos) ==
    IF child_mappings = <<>> THEN merged_values
    ELSE LET mapping == child_mappings[1]
             value == ChildValue(mapping, instance_data, env.source_schema, env.constants)
             old == IF DictHas(merged_values, mapping.id)
                    THEN DictGet(merged_values, mapping.id) ELSE <<>>
             new == IF value # <<>> THEN Append(old, [value |-> value, pos |-> pos])
                    ELSE old
         IN CollectInstance(env, DictSet(merged_values, mapping.id, new),
                            Tail(child_mappings), instance_data, pos)

\* merge: "for idx, loop_elem in enumerate(loop_elements)"
RECURSIVE CollectMerged(_, _, _, _, _)
CollectMerged(env, merged_values, loop_elements, child_mappings, pos) ==
    IF pos > Len(loop_elements) THEN merged_values
    ELSE CollectMerged(
             env,
             CollectInstance(env, merged_values, child_mappings,
                             extract_from_element(env.src, loop_elements[pos], <<>>, <<>>),
                             pos),
             loop_elements, child_mappings, pos + 1)

\* merge: "for mapping in child_mappings" writing the combined values. The
\* merge mode is always repeat-to-single, so the element is inserted at its
\* position under the root; merge_separator.join raises when the separator
\* is None
RECURSIVE WriteMerged(_, _, _, _, _)
WriteMerged(env, ag, merged_values, child_mappings, merge_separator) ==
    IF child_mappings = <<>> \/ ag.raised THEN ag
    ELSE LET mapping == child_mappings[1]
             values == IF DictHas(merged_values, mapping.id)
                       THEN DictGet(merged_values, mapping.id) ELSE <<>>
             combined_value == Join(merge_separator[1],
                                    [i \in 1..Len(values) |-> values[i].value])
             tf == FieldsById(env.target_schema, mapping.target)
             validated_value == validate_and_transform_value(combined_value, tf.field.type)
             ag2 ==
                 IF values = <<>> THEN ag
                 ELSE IF merge_separator = None THEN [ag EXCEPT !.raised = TRUE]
                 ELSE IF ~ tf.found THEN ag
                 ELSE WithProv(ag, InsertLeafOrdered(env.fp, ag.tree, tf.field.path,
                                                     validated_value),
                               {values[i].pos : i \in 1..Len(values)})
         IN WriteMerged(env, ag2, merged_values, Tail(child_mappings), merge_separator)

ElementsToProcess_mut(aggregation_mode, loop_elements) == <<1>>

\* elements_to_process, as positions in loop_elements
ElementsToProcess(aggregation_mode, loop_elements) ==
    IF aggregation_mode = "first" THEN <<1>>
    ELSE IF aggregation_mode = "last" THEN <<Len(loop_elements)>>
    ELSE [i \in 1..Len(loop_elements) |-> i]

\* the body of "for container in container_mappings"; an exception raised
\* inside is caught here and the next container is processed
ProcessContainer(env, ag, container, mappings) ==
    LET child_mappings == SelectSeq(mappings,
                                    LAMBDA m : m.parent_repeat_container = container.id)
        loop_elements == LoopElements(env.src, container.loop_element_path[1])
        aggregation_mode == IF container.aggregation # "" THEN container.aggregation
                            ELSE "repeat"
        merge_separator == IF aggregation_mode = "merge"
                           THEN container.params.mergeSeparator
                           ELSE Some(<<",", " ">>)
        has_wrapper == container.target_wrapper_path # None
        is_repeat_to_single ==
            aggregation_mode = "merge" \/ container.repeat_to_single \/ ~ has_wrapper
        done ==
            IF container.loop_element_path = None \/ container.loop_element_path[1] = <<>>
            THEN ag
            ELSE IF child_mappings = <<>> THEN ag
            ELSE IF loop_elements = <<>> THEN ag
            ELSE IF aggregation_mode = "merge"
            THEN WriteMerged(env, ag,
                             CollectMerged(env, <<>>, loop_elements, child_mappings, 1),
                             child_mappings, merge_separator)
            ELSE ProcessInstances(env, ag,
                                  ElementsToProcess(aggregation_mode, loop_elements),
                                  loop_elements, container, child_mappings,
                                  is_repeat_to_single)
    IN [done EXCEPT !.raised = FALSE]

RECURSIVE ProcessContainers(_, _, _, _)
ProcessContainers(env, ag, container_mappings, mappings) ==
    IF container_mappings = <<>> THEN ag
    ELSE ProcessContainers(env, ProcessContainer(env, ag, container_mappings[1], mappings),
                           Tail(container_mappings), mappings)

\* apply_repeating_mappings_to_xml: the tree it leaves and the count it returns
apply_repeating_mappings_to_xml(source_root, target_root, mappings, source_schema, target_schema, constants) ==
    LET env == [src |-> source_root, source_schema |-> source_schema,
                target_schema |-> target_schema, constants |-> constants,
                fp |-> TrackerPaths(target_schema)]
        ag0 == [tree |-> target_root,
                prov |-> [i \in 1..Len(target_root) |-> NoInstances],
                total |-> 0, raised |-> FALSE]
    IN ProcessContainers(env, ag0, SelectSeq(mappings, LAMBDA m : m.is_container),
                         mappings)

-----------------------------------------------------------------------------
(* SpecAgg: one structured source file whose direct mappings have been      *)
(* applied is composed and then handed to the Repeating Aggregator, as      *)
(* batch_process does for every file of an XML source.                      *)

MaxInstances == 2

\* the Item instances a document is made of: kind attribute and Qty text
AggInstances ==
    {[kind |-> <<"a">>, qty |-> <<"2">>], [kind |-> <<"a">>, qty |-> <<"3">>],
     [kind |-> <<"b">>, qty |-> <<"3">>], [kind |-> <<"a">>, qty |-> <<>>]}

\* an Order document: Item elements with a kind attribute and a Qty child
AggSourceDoc(insts) ==
    <<SrcNode("Order", <<>>, <<>>, [i \in 1..Len(insts) |-> 2 * i])>>
    \o [j \in 1..(2 * Len(insts)) |->
          IF j % 2 = 1
          THEN SrcNode("Item", <<>>,
                       <<[k |-> "@kind", v |-> insts[(j + 1) \div 2].kind]>>, <<j + 2>>)
          ELSE SrcNode("Qty", insts[j \div 2].qty, <<>>, <<>>)]

AggSourceDocs ==
    {AggSourceDoc(insts) :
        insts \in UNION {[1..n -> AggInstances] : n \in 0..MaxInstances}}

AggSourceSchema ==
    StructSchema(<<>>,
                 <<[path |-> <<"Order", "Item">>, wrapper_path |-> <<>>, order |-> Sentinel,
                    fields |-> <<Fld("s-qty", <<"Order", "Item", "Qty">>, "string", FALSE, 0)>>]>>)

AggConstants == <<Constant("const-1", <<"c">>)>>

AggTargetSchema ==
    StructSchema(<<Fld("t-head", <<"Out", "Head">>, "string", FALSE, 1),
                   Fld("t-qtys", <<"Out", "Qtys">>, "string", TRUE, 2),
                   Fld("t-n", <<"Out", "N">>, "int", TRUE, 3)>>,
                 <<[path |-> <<"Out", "Line">>, wrapper_path |-> <<"Out", "Line">>,
                    order |-> 4,
                    fields |-> <<Fld("t-lqty", <<"Out", "Line", "Qty">>, "string", FALSE, 5),
                                 Fld("t-lkind", <<"Out", "Line", "Kind">>, "string", FALSE, 6)>>]>>)

ChildMapping(id, source, target) ==
    [Mapping(id, source, target, <<>>, NoParams) EXCEPT !.parent_repeat_container = "rc-1"]

AggChildLists ==
    {<<ChildMapping("c-qty", <<"s-qty">>, "t-qtys")>>,
     <<ChildMapping("c-qty", <<"s-qty">>, "t-qtys"), ChildMapping("c-n", <<"s-qty">>, "t-n")>>,
     <<ChildMapping("c-lkind", <<"const-1">>, "t-lkind"),
       ChildMapping("c-lqty", <<"s-qty">>, "t-lqty")>>,
     <<ChildMapping("c-lost", <<"s-qty">>, "t-zz"), ChildMapping("c-qty", <<"s-qty">>, "t-qtys")>>,
     <<ChildMapping("c-none", <<"s-zz">>, "t-qtys")>>}

AggConditionLists ==
    {<<>>,
     <<MappingCondition("@kind", "equals", Some(<<"a">>))>>,
     <<MappingCondition("Qty", "exists", None)>>,
     <<MappingCondition("@kind", "equals", Some(<<"a">>)),
       MappingCondition("Qty", "contains", None)>>}

ContainerMapping(aggregation, wrapper, rts, conditions, mergeSeparator) ==
    [Mapping("rc-1", <<>>, "", <<>>, MappingParams(None, mergeSeparator)) EXCEPT
        !.is_container = TRUE,
        !.aggregation = aggregation,
        !.loop_element_path = Some(<<"Order", "Item">>),
        !.target_wrapper_path = wrapper,
        !.repeat_to_single = rts,
        !.conditions = conditions]

AggContainers ==
    {ContainerMapping(a, w.path, w.rts, c, None) :
        a \in {"repeat", "first", "last"},
        w \in {[path |-> None, rts |-> FALSE],
               [path |-> Some(<<"Out", "Line">>), rts |-> FALSE],
               [path |-> Some(<<"Out", "Line">>), rts |-> TRUE]},
        c \in AggConditionLists}
    \cup {ContainerMapping("merge", None, FALSE, c, sep) :
            c \in AggConditionLists, sep \in {None, Some(<<",", " ">>)}}

\* the results of the direct mappings: none, or a value for Out/Head
AggTransformed == {<<>>, <<[k |-> <<"Out", "Head">>, v |-> <<"h">>]>>}

AggNone == [done |-> FALSE, base |-> <<>>, tree |-> <<>>, prov |-> <<>>, total |-> 0]

AggInit ==
    /\ agg_in \in {[source_root |-> src, transformed |-> tr,
                    mappings |-> <<container>> \o children] :
                      src \in AggSourceDocs, tr \in AggTransformed,
                      container \in AggContainers, children \in AggChildLists}
    /\ agg_out = AggNone
    /\ InsIdle /\ AnIdle /\ CmpIdle /\ ValIdle /\ BatIdle

\* batch_process, one XML file: create_xml_from_data, then
\* apply_repeating_mappings_to_xml on the tree it returned
ProcessXmlFile ==
    /\ ~ agg_out.done
    /\ LET target_root == create_xml_from_data(agg_in.transformed, AggTargetSchema, "Record")
           ag == apply_repeating_mappings_to_xml(agg_in.source_root, target_root,
                                                 agg_in.mappings, AggSourceSchema,
                                                 AggTargetSchema, AggConstants)
       IN agg_out' = [done |-> TRUE, base |-> target_root, tree |-> ag.tree,
                      prov |-> ag.prov, total |-> ag.total]
    /\ UNCHANGED <<agg_in, ins_vars, an_vars, cmp_vars, val_vars, bat_vars>>

AggNext == ProcessXmlFile

SpecAgg == AggInit /\ [][AggNext]_vars

AggContainer == agg_in.mappings[1]

AggChildren == Tail(agg_in.mappings)

AggLoopElements == LoopElements(agg_in.source_root, AggContainer.loop_element_path[1])

AggVerdict(pos) == InstanceVerdict(agg_in.source_root, AggLoopElements[pos], AggContainer)

\* the source instances (positions in document order) that satisfy every
\* Condition, and those that fail one
AggAccepted == {pos \in 1..Len(AggLoopElements) : AggVerdict(pos) = "true"}

AggRejected == {pos \in 1..Len(AggLoopElements) : AggVerdict(pos) = "false"}

\* the nodes the aggregator added to the composed tree
AggAdded == (Len(agg_out.base) + 1)..Len(agg_out.tree)

RECURSIVE TagPath(_, _)
TagPath(t, n) ==
    IF n = 1 THEN <<t[1].tag>>
    ELSE TagPath(t, CHOOSE p \in 1..Len(t) : n \in Range(t[p].kids)) \o <<t[n].tag>>

\* node n lies at the target path, which may or may not name the root
AtTargetPath(t, n, path) ==
    TagPath(t, n) = path \/ TagPath(t, n) = <<t[1].tag>> \o path

AggAddedAt(path) == {n \in AggAdded : AtTargetPath(agg_out.tree, n, path)}

\* the value a child mapping resolves to for the instance at pos, coerced to
\* the type of its target Field
AggInstanceValue(mapping, pos) ==
    ChildValue(mapping,
               extract_from_element(agg_in.source_root, AggLoopElements[pos], <<>>, <<>>),
               AggSourceSchema, AggConstants)

AggTarget(mapping) == FieldsById(AggTargetSchema, mapping.target)

AggResolvedChildren ==
    {i \in 1..Len(AggChildren) : AggTarget(AggChildren[i]).found}

\* C5: after the run, no node of the output tree was created or filled from
\* a source instance that fails a Condition of the container: no wrapper, no
\* leaf, no part of a joined value, in every aggregation mode.
C5_RejectedContributesNothing ==
    agg_out.done =>
        \A n \in 1..Len(agg_out.tree) : agg_out.prov[n] \cap AggRejected = {}

\* the non-empty values of the accepted instances, in source instance order
RECURSIVE AcceptedValues(_, _)
AcceptedValues(mapping, pos) ==
    IF pos > Len(AggLoopElements) THEN <<>>
    ELSE (IF pos \in AggAccepted /\ AggInstanceValue(mapping, pos) # <<>>
          THEN <<AggInstanceValue(mapping, pos)>> ELSE <<>>)
         \o AcceptedValues(mapping, pos + 1)

\* C6: in merge mode with a configured separator, every child mapping whose
\* target resolves and that has a value in some accepted instance writes
\* exactly one target element, and its text is the values of the accepted
\* instances, in source instance order, joined with the separator (read in
\* the code's favour: empty values are left out and the joined text is
\* coerced to the target type).
C6_MergeJoinsAccepted ==
    (/\ agg_out.done
     /\ AggContainer.aggregation = "merge"
     /\ AggContainer.params.mergeSeparator # None) =>
        \A i \in AggResolvedChildren :
            LET mapping == AggChildren[i]
                field == AggTarget(mapping).field
                vals == AcceptedValues(mapping, 1)
                expected == validate_and_transform_value(
                                Join(AggContainer.params.mergeSeparator[1], vals),
                                field.type)
            IN vals # <<>> =>
                   /\ Cardinality(AggAddedAt(field.path)) = 1
                   /\ \A n \in AggAddedAt(field.path) : agg_out.tree[n].text = expected

\* the instance first/last selects among the accepted ones
AggSelected ==
    IF AggContainer.aggregation = "first"
    THEN CHOOSE p \in AggAccepted : \A q \in AggAccepted : p <= q
    ELSE CHOOSE p \in AggAccepted : \A q \in AggAccepted : q <= p

\* C7: in mode first (last), whenever some instance is accepted, the output
\* holds the mapping of the first (last) accepted instance for every child
\* mapping whose target resolves, and no other instance contributes.
C7_FirstLastAmongAccepted ==
    (/\ agg_out.done
     /\ AggContainer.aggregation \in {"first", "last"}
     /\ AggAccepted # {}) =>
        /\ \A n \in 1..Len(agg_out.tree) : agg_out.prov[n] \subseteq {AggSelected}
        /\ \A i \in AggResolvedChildren :
               LET mapping == AggChildren[i]
                   field == AggTarget(mapping).field
               IN \E n \in AggAdded :
                      /\ agg_out.tree[n].tag = field.name
                      /\ agg_out.prov[n] = {AggSelected}
                      /\ agg_out.tree[n].text =
                             validate_and_transform_value(
                                 AggInstanceValue(mapping, AggSelected), field.type)

\* the container creates one wrapper per instance (NORMAL mode)
AggNormal ==
    AggContainer.target_wrapper_path # None /\ ~ AggContainer.repeat_to_single

AggAddedLeaves == {n \in AggAdded : agg_out.tree[n].kids = <<>>}

\* the child mappings whose target lies beneath the container's wrapper path
AggChildrenBelowWrapper ==
    {i \in AggResolvedChildren :
        LET path == AggTarget(AggChildren[i]).field.path
            wrapper == AggContainer.target_wrapper_path[1]
        IN Len(path) > Len(wrapper) /\ AtOrBelow(path, wrapper)}

\* C8, as stated: in mode repeat, with a wrapper path there is one new
\* wrapper element per accepted instance; in repeat-to-single mode there is
\* one inserted leaf element per accepted instance for each child mapping
\* and no element at the wrapper path.
C8_RepeatOutputCount ==
    (agg_out.done /\ AggContainer.aggregation = "repeat") =>
        IF AggNormal
        THEN Cardinality(AggAddedAt(AggContainer.target_wrapper_path[1]))
                 = Cardinality(AggAccepted)
        ELSE /\ Cardinality(AggAddedLeaves)
                    = Cardinality(AggAccepted) * Len(AggChildren)
             /\ AggContainer.target_wrapper_path # None =>
                    AggAddedAt(AggContainer.target_wrapper_path[1]) = {}

\* C8, amended: in mode repeat, with a wrapper path there is one new wrapper
\* element per accepted instance and the returned count is their number; in
\* repeat-to-single mode there is one inserted leaf element per accepted
\* instance for each child mapping whose target Field id resolves, none for
\* a child mapping whose target id is unknown, and no wrapper element per
\* instance: an element at the wrapper path exists only as the one parent
\* created for child targets that lie beneath that path.
C8_RepeatOutputCountResolved ==
    (agg_out.done /\ AggContainer.aggregation = "repeat") =>
        IF AggNormal
        THEN /\ Cardinality(AggAddedAt(AggContainer.target_wrapper_path[1]))
                    = Cardinality(AggAccepted)
             /\ agg_out.total = Cardinality(AggAccepted)
        ELSE /\ \A i \in AggResolvedChildren :
                    Cardinality(AggAddedAt(AggTarget(AggChildren[i]).field.path)
                                    \cap AggAddedLeaves)
                        = Cardinality(AggAccepted)
             /\ Cardinality(AggAddedLeaves)
                    = Cardinality(AggAccepted) * Cardinality(AggResolvedChildren)
             /\ AggContainer.target_wrapper_path # None =>
                    Cardinality(AggAddedAt(AggContainer.target_wrapper_path[1]))
                        = IF AggAccepted # {} /\ AggChildrenBelowWrapper # {}
                          THEN 1 ELSE 0

\* a repeat run over two instances of which one is accepted, in
\* repeat-to-single mode with a child mapping whose target id is unknown
C8_Witness ==
    /\ agg_out.done
    /\ AggContainer.aggregation = "repeat"
    /\ ~ AggNormal
    /\ Cardinality(AggAccepted) = 1 /\ Cardinality(AggRejected) = 1
    /\ Cardinality(AggResolvedChildren) < Len(AggChildren)
    /\ AggAddedLeaves # {}

-----------------------------------------------------------------------------
(* Claims about coercion inside the composer *)

\* the value a direct mapping hands to the coercion: its resolved source
\* values after the transform chain
CmpMappedInput(m) ==
    TransformedValue(m, [i \in 1..Len(m.source) |->
        ResolveDirectSource(cmp_in.row, m.source[i], CmpSourceSchema, CmpConstants)])

\* the mapping of the list that writes the result of the target Field last
CmpLastWriter(f) ==
    LET ws == {i \in 1..Len(cmp_in.mappings) : cmp_in.mappings[i].target = f.id}
    IN IF ws = {} THEN 0 ELSE CHOOSE i \in ws : \A j \in ws : j <= i

IsoFromCompact(v) ==
    SubSeq(v, 1, 4) \o <<"-">> \o SubSeq(v, 5, 6) \o <<"-">> \o SubSeq(v, 7, 8)

\* the text is a calendar date written YYYY-MM-DD or YYYYMMDD
IsValidDateText(v) ==
    LET t == Strip(v)
    IN \/ MatchesIsoDate(t) /\ IsCalendarDate(t)
       \/ Len(t) = 8 /\ AllDigits(t) /\ IsCalendarDate(IsoFromCompact(t))

\* C11: for a date-typed target Field, an input that is not a valid date is
\* coerced to the empty string, and the composed tree has no element at the
\* path of that Field.
C11_InvalidDateOmitted ==
    cmp_out.done =>
        \A i \in 1..Len(cmp_in.schema.fields) :
            LET f == cmp_in.schema.fields[i]
                w == CmpLastWriter(f)
            IN (f.type = "date" /\ w # 0
                /\ ~ IsValidDateText(CmpMappedInput(cmp_in.mappings[w]))) =>
                   /\ ResultValue(cmp_out.result, f.path) = <<>>
                   /\ NodesAtPath(cmp_out.tree, f.path) = {}

\* the same statement for the inputs that are not eight digits
C11_InvalidDateOmittedUnlessCompact ==
    cmp_out.done =>
        \A i \in 1..Len(cmp_in.schema.fields) :
            LET f == cmp_in.schema.fields[i]
                w == CmpLastWriter(f)
            IN (f.type = "date" /\ w # 0
                /\ ~ IsValidDateText(CmpMappedInput(cmp_in.mappings[w]))
                /\ Len(Strip(CmpMappedInput(cmp_in.mappings[w]))) # 8) =>
                   /\ ResultValue(cmp_out.result, f.path) = <<>>
                   /\ NodesAtPath(cmp_out.tree, f.path) = {}

\* the Fields of a schema and of its repeating elements
AllTargetFields(schema) == Range(schema.fields) \cup Range(RepFields(schema.repeating_elements))

\* the Field lies at or below the wrapper path of a RepeatingGroup of the schema
BelowWrapper(schema, f) ==
    \E i \in 1..Len(schema.repeating_elements) :
        AtOrBelow(f.path, WrapperPathOf(schema.repeating_elements[i]))

-----------------------------------------------------------------------------
(* SpecValue: one call of PathMatcher.find_value, of the coercion           *)
(* validate_and_transform_value, or of the transform chain of a mapping     *)

MaxKeys == 2

MaxValueLen == 3

MaxChain == 3

MaxTextLen == 2

\* the texts of at most n characters over an alphabet
Texts(chars, n) == UNION {[1..k -> chars] : k \in 0..n}

\* the keys of a record; the value stored under a key spells the key
FindKeys == {<<"c">>, <<"C">>, <<"b", "c">>, <<"a", "b", "c">>, <<"x", "C">>}

FindData ==
    {[i \in 1..Len(ks) |-> [k |-> ks[i], v |-> ks[i]]] :
        ks \in {q \in UNION {[1..n -> FindKeys] : n \in 0..MaxKeys} :
                  \A i, j \in 1..Len(q) : i # j => q[i] # q[j]}}

FindPaths == {<<"a", "b", "c">>, <<"c">>}

\* "" stands for an absent field_name
FindNames == {"", "c", "C", "z"}

CoerceTypes == {"string", "date", "dateTime", "int", "integer", "decimal", "boolean", "token"}

CoerceChars == {"1", "a", "-", "_", " ", "."}

CoerceSamples ==
    {<<"2", "0", "2", "4", "-", "0", "2", "-", "2", "9">>,
     <<"2", "0", "2", "3", "-", "0", "2", "-", "2", "9">>,
     <<"2", "0", "2", "3", "/", "1", "3", "/", "4", "0">>,
     <<"2", "0", "2", "4", "0", "2", "2", "9">>,
     <<"2", "0", "2", "3", "1", "3", "4", "0">>,
     <<"2", "0", "2", "4", "-", "0", "2", "-", "2", "9", "T",
       "1", "0", ":", "0", "0", ":", "0", "0", "Z">>,
     <<"2", "0", "2", "4", "-", "0", "2", "-", "2", "9", "T", "1", "0">>,
     <<"t", "r", "u", "e">>, <<"J", "A">>, <<"n", "e", "j">>, <<"0">>,
     <<"m", "a", "y", "b", "e">>,
     <<"1", "e", "5">>, <<"-", "i", "n", "f">>, <<"1", "_", "0", "0", "0">>,
     <<"a", "<BEL>", "b">>, <<" ", "4", "2", " ">>, <<"x", "1", "2", "y", "3">>}

CoerceValues == Texts(CoerceChars, MaxValueLen) \cup CoerceSamples

ChainNames == {"uppercase", "lowercase", "concat", "bogus"}

ChainLists == UNION {[1..n -> ChainNames] : n \in 0..MaxChain}

ChainChars == {"a", "B", " "}

ChainValueLists ==
    {<<v>> : v \in Texts(ChainChars, MaxTextLen)}
    \cup {<<>>, <<<<"a">>, <<"B", " ">>>>, <<<<" ", "a">>, <<>>, <<"B">>>>}

ChainSeparators == {None, Some(<<"-">>), Some(<<>>)}

\* a text one character longer than MAX_REGEX_LENGTH
LongText == [i \in 1..(MAX_REGEX_LENGTH + 1) |-> "a"]

GuardTexts == {None, Some(<<"a">>), Some(LongText)}

\* the parameters of a replace or regex step
GuardParams ==
    {[NoParams EXCEPT !.from_ = f, !.to = t, !.pattern = p, !.replacement = r] :
        f \in GuardTexts, t \in GuardTexts,
        p \in GuardTexts \cup {Some(<<"(">>)}, r \in GuardTexts}

\* the parameters of a default, format or sanitize step
OtherParams ==
    {NoParams,
     [NoParams EXCEPT !.defaultValue = Some(<<"B">>)],
     [NoParams EXCEPT !.format = Some(<<"<", "{", "}", ">">>)]}

StepValues == {<<"a", "B", "a">>, <<" ", "a", ";">>, <<>>}

CondOperators == {"equals", "contains", "startswith", "regex", "exists", "between"}

\* the comparison values: absent, empty, a text, an oversized text
CondValues == {None, Some(<<>>), Some(<<"a">>), Some(LongText)}

CondPool ==
    {MappingCondition(f, o, v) : f \in {"@kind", "Qty", "@zz"}, o \in CondOperators,
                                 v \in CondValues}

\* no Condition, one Condition, or one Condition behind one the instance may pass
CondLists ==
    {<<>>} \cup {<<c>> : c \in CondPool}
    \cup {<<MappingCondition("@kind", "equals", Some(<<"a">>)), c>> : c \in CondPool}

\* the attributes and child values of one source instance
CondElementData ==
    {<<>>,
     <<[k |-> <<"@kind">>, v |-> <<"a">>], [k |-> <<"Qty">>, v |-> <<"a", "2">>]>>,
     <<[k |-> <<"@kind">>, v |-> <<"b">>], [k |-> <<"Qty">>, v |-> <<>>]>>}

ValInputs ==
    [op : {"find"}, data : FindData, field_path : FindPaths, field_name : FindNames]
    \cup [op : {"conditions"}, conditions : CondLists, element_data : CondElementData]
    \cup [op : {"coerce"}, value : CoerceValues, field_type : CoerceTypes]
    \cup [op : {"chain"}, transforms : ChainLists, source_values : ChainValueLists,
          params : {MappingParams(sep, None) : sep \in ChainSeparators}]
    \cup [op : {"chain"}, transforms : {<<"replace">>, <<"regex">>},
          source_values : {<<v>> : v \in StepValues}, params : GuardParams]
    \cup [op : {"chain"},
          transforms : {<<"default">>, <<"format">>, <<"sanitize">>, <<"trim">>, <<"none">>},
          source_values : {<<v>> : v \in StepValues}, params : OtherParams]

ValNone == [done |-> FALSE, result |-> <<>>, again |-> None]

ValInit ==
    /\ val_in \in ValInputs
    /\ val_out = ValNone
    /\ InsIdle /\ AnIdle /\ CmpIdle /\ AggIdle /\ BatIdle

\* path_matcher.find_value(row, field_path, field_name)
Find ==
    /\ val_in.op = "find" /\ ~ val_out.done
    /\ val_out' = [ValNone EXCEPT !.done = TRUE,
                      !.result = find_value(val_in.data, val_in.field_path, val_in.field_name)]
    /\ UNCHANGED <<val_in, ins_vars, an_vars, cmp_vars, agg_vars, bat_vars>>

\* validate_and_transform_value(value, field_type, field_name)
Coerce ==
    /\ val_in.op = "coerce" /\ ~ val_out.done
    /\ val_out' = [ValNone EXCEPT !.done = TRUE,
                      !.result = validate_and_transform_value(val_in.value, val_in.field_type)]
    /\ UNCHANGED <<val_in, ins_vars, an_vars, cmp_vars, agg_vars, bat_vars>>

\* the coercion applied to its own result
CoerceAgain ==
    /\ val_in.op = "coerce" /\ val_out.done /\ val_out.again = None
    /\ val_out' = [val_out EXCEPT
                      !.again = Some(validate_and_transform_value(val_out.result,
                                                                  val_in.field_type))]
    /\ UNCHANGED <<val_in, ins_vars, an_vars, cmp_vars, agg_vars, bat_vars>>

\* the transform chain of one direct mapping over its resolved source values
ApplyChain ==
    /\ val_in.op = "chain" /\ ~ val_out.done
    /\ val_out' = [ValNone EXCEPT !.done = TRUE,
                      !.result = TransformedValue(
                          Mapping("m-1", <<>>, "t-1", val_in.transforms, val_in.params),
                          val_in.source_values)]
    /\ UNCHANGED <<val_in, ins_vars, an_vars, cmp_vars, agg_vars, bat_vars>>

\* evaluate_conditions(container.conditions, element_data)
EvaluateConditions ==
    /\ val_in.op = "conditions" /\ ~ val_out.done
    /\ val_out' = [ValNone EXCEPT !.done = TRUE,
                      !.result = evaluate_conditions(val_in.conditions, val_in.element_data)]
    /\ UNCHANGED <<val_in, ins_vars, an_vars, cmp_vars, agg_vars, bat_vars>>

ValNext == Find \/ Coerce \/ CoerceAgain \/ ApplyChain \/ EvaluateConditions

SpecValue == ValInit /\ [][ValNext]_vars

ValDone(op) == val_in # <<>> /\ val_in.op = op /\ val_out.done

-----------------------------------------------------------------------------
(* Claims about find_value *)

\* the lookup strategies as the claims word them
ExactHit(data, field_path) == DictHas(data, field_path)

BareNameHit(data, field_name) == field_name # "" /\ DictHas(data, <<field_name>>)

SuffixHits(data, field_path) ==
    {i \in 1..Len(field_path) : DictHas(data, SubSeq(field_path, i, Len(field_path)))}

\* the keys whose last segment equals, ignoring case, the last segment of
\* the field path
LastSegmentHits(data, field_path) ==
    {i \in 1..Len(data) : LowerName(Last(data[i].k)) = LowerName(Last(field_path))}

\* the keys whose last segment equals, ignoring case, the field name
FieldNameHits(data, field_name) ==
    {i \in 1..Len(data) : field_name # "" /\ LowerName(Last(data[i].k)) = LowerName(field_name)}

\* the result is that of the first strategy that hits, in the order exact
\* path, bare field name, suffixes from the longest, then the keys in ci
FirstHitIs(r, data, field_path, field_name, ci) ==
    LET sh == SuffixHits(data, field_path)
    IN IF ExactHit(data, field_path) THEN r = Found(DictGet(data, field_path))
       ELSE IF BareNameHit(data, field_name) THEN r = Found(DictGet(data, <<field_name>>))
       ELSE IF sh # {}
       THEN r = Found(DictGet(data, SubSeq(field_path, CHOOSE i \in sh : \A j \in sh : i <= j,
                                           Len(field_path))))
       ELSE IF ci # {} THEN r.found /\ \E i \in ci : r.value = data[i].v
       ELSE r = NotFound

\* C13: find returns the value of the first strategy that hits, in the order
\* exact field_path key, bare field_name key, suffixes of field_path from
\* the longest to the shortest, case-insensitive match of the last segment of
\* field_path with the last segment of a key; it returns not-found exactly
\* when no strategy hits.
C13_FirstStrategyWins ==
    ValDone("find") =>
        FirstHitIs(val_out.result, val_in.data, val_in.field_path, val_in.field_name,
                   LastSegmentHits(val_in.data, val_in.field_path))

\* the same order with the fourth strategy matching the field name instead
C13_FirstStrategyWinsByName ==
    ValDone("find") =>
        FirstHitIs(val_out.result, val_in.data, val_in.field_path, val_in.field_name,
                   FieldNameHits(val_in.data, val_in.field_name))

\* C14: when neither the exact key, nor the bare field_name key, nor any
\* suffix is present, and the last segment of some key equals, ignoring case,
\* the last segment of field_path, find returns the value of such a key,
\* whatever field_name is.
C14_LastSegmentOfPathMatches ==
    (/\ ValDone("find")
     /\ ~ ExactHit(val_in.data, val_in.field_path)
     /\ ~ BareNameHit(val_in.data, val_in.field_name)
     /\ SuffixHits(val_in.data, val_in.field_path) = {}
     /\ LastSegmentHits(val_in.data, val_in.field_path) # {}) =>
        /\ val_out.result.found
        /\ \E i \in LastSegmentHits(val_in.data, val_in.field_path) :
               val_out.result.value = val_in.data[i].v

-----------------------------------------------------------------------------
(* Claims about the coercion *)

IntTypes == {"int", "integer", "xs:int", "xs:integer"}

\* the text is a value of the declared type
Conforms(v, field_type) ==
    IF field_type \in {"date", "xs:date"} THEN MatchesIsoDate(v) /\ IsCalendarDate(v)
    ELSE IF field_type \in {"dateTime", "xs:dateTime"} THEN MatchesIsoDateTimePrefix(v)
    ELSE IF field_type \in IntTypes THEN IsIntLiteral(v)
    ELSE IF field_type \in {"decimal", "float", "double", "xs:decimal", "xs:float", "xs:double"}
    THEN IsFloatLiteral(v)
    ELSE IF field_type \in {"boolean", "xs:boolean"}
    THEN v \in {<<"t", "r", "u", "e">>, <<"f", "a", "l", "s", "e">>}
    ELSE \A i \in 1..Len(v) : ~ IsControl(v[i])

\* C15: for every input and every declared type, unknown types included,
\* the coercion returns a text, and the text is empty whenever the value
\* cannot be made to conform to the type: a result that is not empty is a
\* value of the type.
C15_CoercionTotalAndConforming ==
    ValDone("coerce") =>
        /\ DOMAIN val_out.result = 1..Len(val_out.result)
        /\ val_out.result = <<>> \/ Conforms(val_out.result, val_in.field_type)

\* the same statement for every type but date
C15_ConformingUnlessDate ==
    (ValDone("coerce") /\ val_in.field_type # "date") =>
        val_out.result = <<>> \/ Conforms(val_out.result, val_in.field_type)

\* C16: coercion to int is idempotent: coercing the result of a coercion to
\* int again returns that result.
C16_IntCoercionIdempotent ==
    (ValDone("coerce") /\ val_in.field_type \in IntTypes /\ val_out.again # None) =>
        val_out.again[1] = val_out.result

\* a digit run extracted from a text that is not an integer has been coerced again
C16_Witness ==
    /\ ValDone("coerce") /\ val_in.field_type \in IntTypes /\ val_out.again # None
    /\ val_out.result # <<>>
    /\ val_out.result # Strip(val_in.value)

-----------------------------------------------------------------------------
(* Claims about the transforms *)

\* the chain runs over a single source value v
ChainOver(ts) ==
    /\ ValDone("chain") /\ val_in.transforms = ts /\ Len(val_in.source_values) = 1

\* C17: for an ASCII text v, applying uppercase, then lowercase, then
\* uppercase to v yields v.lower().
C17_UpperLowerUpperIsLower ==
    ChainOver(<<"uppercase", "lowercase", "uppercase">>) =>
        val_out.result = Lower(val_in.source_values[1])

\* C17 as the transforms behave: the last step is uppercase, so the chain
\* yields v.upper()
C17_UpperLowerUpperIsUpper ==
    ChainOver(<<"uppercase", "lowercase", "uppercase">>) =>
        val_out.result = Upper(val_in.source_values[1])

\* the chain has run over a text with a lower-case and an upper-case letter
C17_Witness ==
    /\ ChainOver(<<"uppercase", "lowercase", "uppercase">>)
    /\ \E i, j \in 1..Len(val_in.source_values[1]) :
           /\ val_in.source_values[1][i] = "a"
           /\ val_in.source_values[1][j] = "B"

\* what the claim says one transform of the chain does to a value: an
\* unrecognised name leaves it unchanged
StepOf(name, v) ==
    IF name = "uppercase" THEN Upper(v)
    ELSE IF name = "lowercase" THEN Lower(v)
    ELSE v

\* the transforms applied strictly left to right
RECURSIVE LeftToRight(_, _)
LeftToRight(ts, v) == IF ts = <<>> THEN v ELSE LeftToRight(Tail(ts), StepOf(ts[1], v))

\* the configured separator, a blank when none is configured
SeparatorOf(params) == IF params.separator = None THEN <<" ">> ELSE params.separator[1]

\* C18: when the chain contains concat, all resolved source values are
\* joined with the configured separator, concat is removed from the chain and
\* the remaining transforms are applied left to right to the joined text;
\* without concat only the first resolved source value is used; a transform
\* name that is not recognised leaves the value unchanged.
C18_ConcatThenLeftToRight ==
    (ValDone("chain") /\ val_in.transforms \in ChainLists) =>
        LET ts == val_in.transforms
            vs == val_in.source_values
            joins == \E i \in 1..Len(ts) : ts[i] = "concat"
            start == IF joins THEN Join(SeparatorOf(val_in.params), vs)
                     ELSE IF vs = <<>> THEN <<>> ELSE vs[1]
        IN val_out.result = LeftToRight(SelectSeq(ts, LAMBDA t : t # "concat"), start)

\* a chain with concat after another transform and with an unrecognised
\* name has run over several source values
C18_Witness ==
    /\ ValDone("chain")
    /\ val_in.transforms = <<"uppercase", "concat", "bogus">>
    /\ Len(val_in.source_values) = 3
    /\ val_in.params.separator = Some(<<"-">>)
    /\ val_out.result = <<" ", "A", "-", "-", "B">>

\* the guarded inputs of a replace step and of a regex step
GuardedInputs(name, params) ==
    IF name = "replace" THEN {params.from_, params.to}
    ELSE IF name = "regex" THEN {params.pattern, params.replacement}
    ELSE {}

\* C19: a replace or regex step one of whose guarded inputs (replace: the
\* search literal and the replacement literal; regex: the pattern and the
\* replacement) is longer than the length bound is skipped: it returns its
\* input unchanged.
C19_OversizedInputSkipsStep ==
    (/\ ValDone("chain") /\ Len(val_in.transforms) = 1 /\ Len(val_in.source_values) = 1
     /\ \E g \in GuardedInputs(val_in.transforms[1], val_in.params) :
            g # None /\ Len(g[1]) > MAX_REGEX_LENGTH) =>
        val_out.result = val_in.source_values[1]

\* the same statement for the search literal of replace and the pattern of
\* regex alone
C19_OversizedPatternSkipsStep ==
    (/\ ValDone("chain") /\ Len(val_in.transforms) = 1 /\ Len(val_in.source_values) = 1
     /\ \/ /\ val_in.transforms[1] = "replace"
            /\ val_in.params.from_ # None /\ Len(val_in.params.from_[1]) > MAX_REGEX_LENGTH
        \/ /\ val_in.transforms[1] = "regex"
            /\ val_in.params.pattern # None
            /\ Len(val_in.params.pattern[1]) > MAX_REGEX_LENGTH) =>
        val_out.result = val_in.source_values[1]

-----------------------------------------------------------------------------
(* Claims about the direct mappings of a record *)

\* no source id of the mapping resolves: the id is unknown, or the record has
\* no value for the source Field
SourcesMissing(m) ==
    /\ m.source # <<>>
    /\ \A k \in 1..Len(m.source) :
           IF IsConstId(m.source[k]) THEN ~ ConstById(CmpConstants, m.source[k]).found
           ELSE LET sf == FieldsById(CmpSourceSchema, m.source[k])
                IN ~ sf.found \/ ~ find_value(cmp_in.row, sf.field.path, sf.field.name).found

TargetUnknown(m) == ~ FieldsById(cmp_in.schema, m.target).found

\* the value of the mapping is not empty and its coercion to the type of
\* the target Field is
CoercionFails(m) ==
    /\ ~ TargetUnknown(m)
    /\ CmpMappedInput(m) # <<>>
    /\ validate_and_transform_value(CmpMappedInput(m),
                                    FieldsById(cmp_in.schema, m.target).field.type) = <<>>

Degraded(m) == SourcesMissing(m) \/ TargetUnknown(m) \/ CoercionFails(m)

\* the mapping at position i writes its target path and no later mapping
\* writes that path
WritesLast(i, q) ==
    LET tf(j) == FieldsById(cmp_in.schema, cmp_in.mappings[j].target)
    IN /\ tf(i).found /\ tf(i).field.path = q
       /\ \A j \in (i + 1)..Len(cmp_in.mappings) : ~ (tf(j).found /\ tf(j).field.path = q)

\* the mapping list without the mapping at position i
WithoutMapping(i) ==
    SubSeq(cmp_in.mappings, 1, i - 1) \o SubSeq(cmp_in.mappings, i + 1, Len(cmp_in.mappings))

-----------------------------------------------------------------------------
(* Claims about the coercion to date *)

DateTypes == {"date", "xs:date"}

\* C30: the result of coercion to the date type is the empty text or a valid
\* calendar date written YYYY-MM-DD, also for an input of eight digits that
\* is reformatted; and coercing the result to date again returns it.
C30_DateResultValidAndIdempotent ==
    (ValDone("coerce") /\ val_in.field_type \in DateTypes) =>
        /\ \/ val_out.result = <<>>
           \/ MatchesIsoDate(val_out.result) /\ IsCalendarDate(val_out.result)
        /\ val_out.again # None => val_out.again[1] = val_out.result

\* the same statement for the inputs that are not eight digits
C30_ValidUnlessCompact ==
    (/\ ValDone("coerce") /\ val_in.field_type \in DateTypes
     /\ ~ (Len(Strip(val_in.value)) = 8 /\ AllDigits(Strip(val_in.value)))) =>
        /\ \/ val_out.result = <<>>
           \/ MatchesIsoDate(val_out.result) /\ IsCalendarDate(val_out.result)
        /\ val_out.again # None => val_out.again[1] = val_out.result

-----------------------------------------------------------------------------
(* Claims about Conditions and about the merge separator *)

\* C28: evaluating the Conditions of a container on an instance yields
\* accept or reject for every operator and every comparison value, an absent
\* one included; it never raises.
C28_ConditionsNeverRaise ==
    ValDone("conditions") => val_out.result \in {"true", "false"}

\* the same statement for the Conditions whose comparison value is present
C28_NeverRaiseWithValue ==
    (ValDone("conditions") /\ \A i \in 1..Len(val_in.conditions) :
                                  val_in.conditions[i].value # None) =>
        val_out.result \in {"true", "false"}

\* the values of all instances, in source instance order
RECURSIVE AllValues(_, _)
AllValues(mapping, pos) ==
    IF pos > Len(AggLoopElements) THEN <<>>
    ELSE (IF AggInstanceValue(mapping, pos) # <<>>
          THEN <<AggInstanceValue(mapping, pos)>> ELSE <<>>)
         \o AllValues(mapping, pos + 1)

\* C29: in merge mode, when the container configures no merge separator,
\* every child mapping whose target resolves and that has a value in some
\* instance writes its target element, and the text is the values joined
\* with ", " (read in the code's favour: the values of all instances or of
\* the accepted ones, empty values left out, the joined text coerced).
C29_DefaultMergeSeparator ==
    (/\ agg_out.done
     /\ AggContainer.aggregation = "merge"
     /\ AggContainer.params.mergeSeparator = None) =>
        \A i \in AggResolvedChildren :
            LET mapping == AggChildren[i]
                field == AggTarget(mapping).field
                joined(vals) == validate_and_transform_value(Join(<<",", " ">>, vals),
                                                             field.type)
            IN AllValues(mapping, 1) # <<>> =>
                   \E n \in AggAddedAt(field.path) :
                       agg_out.tree[n].text \in {joined(AllValues(mapping, 1)),
                                                 joined(AcceptedValues(mapping, 1))}

-----------------------------------------------------------------------------
(* Claims about the order inside a wrapper instance *)

\* the target Schema declares a child with this tag for the wrapper
IsDeclared(wrapper, tag) ==
    \E f \in Range(RepFields(AggTargetSchema.repeating_elements)) : f.path = wrapper \o <<tag>>

\* the order index the target Schema declares for the child tag of a wrapper
DeclaredOrder(wrapper, tag) ==
    LET fs == RepFields(AggTargetSchema.repeating_elements)
    IN fs[CHOOSE i \in 1..Len(fs) : fs[i].path = wrapper \o <<tag>>].order

\* C27: in the modes that create one wrapper element per instance, the child
\* elements inside each created wrapper appear in the sequence order the
\* Schema declares, whatever the order of the child mappings.
C27_WrapperChildrenInSchemaOrder ==
    (agg_out.done /\ AggNormal /\ AggContainer.aggregation # "merge") =>
        \A n \in AggAddedAt(AggContainer.target_wrapper_path[1]) :
            LET kids == agg_out.tree[n].kids
                wrapper == AggContainer.target_wrapper_path[1]
            IN \A i, j \in 1..Len(kids) :
                   (i < j /\ IsDeclared(wrapper, agg_out.tree[kids[i]].tag)
                          /\ IsDeclared(wrapper, agg_out.tree[kids[j]].tag)) =>
                       DeclaredOrder(wrapper, agg_out.tree[kids[i]].tag)
                           < DeclaredOrder(wrapper, agg_out.tree[kids[j]].tag)

-----------------------------------------------------------------------------
(* SpecBatch: batch_process over the files of a source directory. The run   *)
(* state is [request, constants, cache, next, processed_files,              *)
(* processed_records, errors, outputs, response]; outputs lists, for the    *)
(* model, what was written for each record: file, flat result and tree.     *)

MaxFiles == 3

\* parse_xml_to_dict: the text of every leaf element under its full path and
\* under the partial paths that keep at least two segments
RECURSIVE extract_with_path(_, _, _, _)
extract_with_path(src, elem, path, result) ==
    LET current_path == path \o <<src[elem].tag>>
        text == Strip(src[elem].text)
        d1 == IF text # <<>> /\ src[elem].kids = <<>>
              THEN StorePartials(DictSet(result, current_path, text),
                                 current_path, <<>>, text, 1)
              ELSE result
        RECURSIVE Children(_, _)
        Children(d, i) ==
            IF i > Len(src[elem].kids) THEN d
            ELSE Children(extract_with_path(src, src[elem].kids[i], current_path, d), i + 1)
    IN Children(d1, 1)

parse_xml_to_dict(src) == extract_with_path(src, 1, <<>>, <<>>)

\* the except branch of a file: errors.append(error_msg), naming the file
RecordError_mut(run, name) == run

RecordError(run, name) == [run EXCEPT !.errors = Append(@, name)]

\* the flat result of the row before is used again
CsvRow_mut(run, name, row) ==
    LET fresh == apply_mappings_to_row(
                     row, SelectSeq(run.request.mappings, LAMBDA m : ~ m.is_container),
                     run.request.source_schema, run.request.target_schema, run.constants)
        transformed == IF run.outputs = <<>> THEN fresh ELSE Last(run.outputs).result
    IN [run EXCEPT
           !.outputs = Append(@, [file |-> name, result |-> transformed,
                                  tree |-> create_xml_from_data(
                                               transformed, run.request.target_schema,
                                               "Record")]),
           !.processed_records = @ + 1]

\* the body of "for idx, row in df.iterrows()"
CsvRow(run, name, row) ==
    LET transformed == apply_mappings_to_row(
                           row, SelectSeq(run.request.mappings, LAMBDA m : ~ m.is_container),
                           run.request.source_schema, run.request.target_schema,
                           run.constants)
    IN [run EXCEPT
           !.outputs = Append(@, [file |-> name, result |-> transformed,
                                  tree |-> create_xml_from_data(
                                               transformed, run.request.target_schema,
                                               "Record")]),
           !.processed_records = @ + 1]

\* the rows i.. of a file, up to the row whose output cannot be written
RECURSIVE CsvRows(_, _, _, _)
CsvRows(run, name, file, i) ==
    IF i > Len(file.rows) \/ i = file.fails_at THEN run
    ELSE CsvRows(CsvRow(run, name, file.rows[i]), name, file, i + 1)

\* the body of "for csv_file in csv_files": pd.read_csv raises for a file it
\* cannot read, tree.write for an output it cannot write; the rows written
\* before stay written and counted
CsvFile(run, name, file) ==
    IF ~ file.readable THEN RecordError(run, name)
    ELSE IF file.fails_at # 0 THEN RecordError(CsvRows(run, name, file, 1), name)
    ELSE [CsvRows(run, name, file, 1) EXCEPT !.processed_files = @ + 1]

\* the body of "for xml_file in xml_files": ET.fromstring raises for a file
\* that is not well-formed
XmlFile(run, name, file) ==
    IF ~ file.readable THEN RecordError(run, name)
    ELSE LET source_data == parse_xml_to_dict(file.root)
             transformed == apply_mappings_to_row(
                                source_data,
                                SelectSeq(run.request.mappings, LAMBDA m : ~ m.is_container),
                                run.request.source_schema, run.request.target_schema,
                                run.constants)
             target_root == create_xml_from_data(transformed, run.request.target_schema,
                                                 "Record")
             ag == apply_repeating_mappings_to_xml(
                       file.root, target_root, run.request.mappings,
                       run.request.source_schema, run.request.target_schema, run.constants)
         IN [run EXCEPT
                !.outputs = Append(@, [file |-> name, result |-> transformed,
                                       tree |-> ag.tree]),
                !.processed_files = @ + 1,
                !.processed_records = @ + 1]

BatUnreadable == [readable |-> FALSE, fails_at |-> 0, rows |-> <<>>, root |-> <<>>]

BatRowAnn == <<[k |-> <<"Name">>, v |-> <<"A", "n", "n">>], [k |-> <<"Age">>, v |-> <<"3", "0">>]>>

BatRowAn == <<[k |-> <<"Name">>, v |-> <<" ", "a", "n">>]>>

BatCsvFiles ==
    {BatUnreadable,
     [readable |-> TRUE, fails_at |-> 0, root |-> <<>>, rows |-> <<BatRowAnn>>],
     [readable |-> TRUE, fails_at |-> 0, root |-> <<>>, rows |-> <<BatRowAnn, BatRowAn>>],
     [readable |-> TRUE, fails_at |-> 2, root |-> <<>>, rows |-> <<BatRowAnn, BatRowAn>>]}

BatXmlFiles ==
    {BatUnreadable,
     [readable |-> TRUE, fails_at |-> 0, rows |-> <<>>,
      root |-> AggSourceDoc(<<[kind |-> <<"a">>, qty |-> <<"2">>]>>)],
     [readable |-> TRUE, fails_at |-> 0, rows |-> <<>>,
      root |-> AggSourceDoc(<<[kind |-> <<"a">>, qty |-> <<"2">>],
                              [kind |-> <<"b">>, qty |-> <<"3">>]>>)]}

BatCsvRequests ==
    {[type |-> "csv", source_schema |-> CmpSourceSchema,
      target_schema |-> StructSchema(<<TName, TAge, TBorn>>, <<>>),
      mappings |-> ms] :
        ms \in {<<Mapping("m-name", <<"s-name">>, "t-name", <<"uppercase">>, NoParams),
                  Mapping("m-age", <<"s-age">>, "t-age", <<>>, NoParams)>>,
                <<Mapping("m-city", <<"const-1">>, "t-name", <<>>, NoParams),
                  Mapping("m-lost", <<"s-zz">>, "t-age", <<>>, NoParams)>>}}

BatXmlRequests ==
    {[type |-> "xml", source_schema |-> AggSourceSchema, target_schema |-> AggTargetSchema,
      mappings |-> <<Mapping("m-head", <<"const-1">>, "t-head", <<>>, NoParams),
                     ContainerMapping("repeat", w, FALSE, <<>>, None),
                     ChildMapping("c-lqty", <<"s-qty">>, t)>>] :
        w \in {None, Some(<<"Out", "Line">>)}, t \in {"t-qtys", "t-lqty"}}

\* the files of the directory, in the order glob lists them
BatFileLists(pool) == UNION {[1..n -> pool] : n \in 0..MaxFiles}

BatInit ==
    /\ bat_in \in [request : BatCsvRequests, files : BatFileLists(BatCsvFiles),
                   constants : {CmpConstants}]
                  \cup [request : BatXmlRequests, files : BatFileLists(BatXmlFiles),
                        constants : {AggConstants}]
    /\ bat_run = [request |-> bat_in.request, constants |-> bat_in.constants,
                  cache |-> <<>>, next |-> 1, processed_files |-> 0,
                  processed_records |-> 0, errors |-> <<>>, outputs |-> <<>>,
                  response |-> None]
    /\ InsIdle /\ AnIdle /\ CmpIdle /\ AggIdle /\ ValIdle

BatRunning == bat_run.response = None /\ bat_run.next <= Len(bat_in.files)

\* "if not csv_files" / "if not xml_files": the request fails with status 404
NoFilesFound ==
    /\ bat_run.response = None /\ bat_in.files = <<>>
    /\ bat_run' = [bat_run EXCEPT !.response = Some([success |-> FALSE, status |-> 404])]
    /\ UNCHANGED <<bat_in, ins_vars, an_vars, cmp_vars, agg_vars, val_vars>>

\* one iteration of the CSV loop
ProcessCsvFile ==
    /\ BatRunning /\ bat_run.request.type = "csv"
    /\ bat_run' = [CsvFile(bat_run, bat_run.next, bat_in.files[bat_run.next])
                      EXCEPT !.next = @ + 1]
    /\ UNCHANGED <<bat_in, ins_vars, an_vars, cmp_vars, agg_vars, val_vars>>

\* one iteration of the XML loop
ProcessBatchXmlFile ==
    /\ BatRunning /\ bat_run.request.type = "xml"
    /\ bat_run' = [XmlFile(bat_run, bat_run.next, bat_in.files[bat_run.next])
                      EXCEPT !.next = @ + 1]
    /\ UNCHANGED <<bat_in, ins_vars, an_vars, cmp_vars, agg_vars, val_vars>>

\* the return of batch_process after the loop
Respond ==
    /\ bat_run.response = None /\ bat_in.files # <<>>
    /\ bat_run.next > Len(bat_in.files)
    /\ bat_run' = [bat_run EXCEPT
                      !.response = Some([success |-> TRUE, status |-> 200,
                                         processed_files |-> bat_run.processed_files,
                                         processed_records |-> bat_run.processed_records,
                                         errors |-> bat_run.errors])]
    /\ UNCHANGED <<bat_in, ins_vars, an_vars, cmp_vars, agg_vars, val_vars>>

BatNext == NoFilesFound \/ ProcessCsvFile \/ ProcessBatchXmlFile \/ Respond

SpecBatch == BatInit /\ [][BatNext]_vars

BatResponded == bat_run # <<>> /\ bat_run.response # None /\ bat_in.files # <<>>

BatFailed ==
    {i \in 1..Len(bat_in.files) : ~ bat_in.files[i].readable \/ bat_in.files[i].fails_at # 0}

\* the number of records of file i that the run has written
BatWritten(i) == Cardinality({k \in 1..Len(bat_run.outputs) : bat_run.outputs[k].file = i})

\* C21: when processing a file raises, the error is appended to the error
\* list of the run, the file is not counted as processed, and every later
\* file is still processed; after the run the processed files and the
\* recorded errors add up to the number of files, and the run succeeds.
C21_FileErrorsStayLocal ==
    BatResponded =>
        LET r == bat_run.response[1]
        IN /\ r.success
           /\ r.processed_files + Len(r.errors) = Len(bat_in.files)
           /\ r.processed_files = Len(bat_in.files) - Cardinality(BatFailed)
           /\ Range(r.errors) = BatFailed
           /\ \A i \in 1..Len(bat_in.files) \ BatFailed :
                  BatWritten(i) = IF bat_in.request.type = "csv"
                                  THEN Len(bat_in.files[i].rows) ELSE 1

\* a run in which a file raised and a later file was processed has responded
C21_Witness ==
    /\ BatResponded
    /\ \E i, j \in 1..Len(bat_in.files) :
           /\ i < j /\ i \in BatFailed /\ j \notin BatFailed
           /\ BatWritten(j) > 0

\* what one record gives on its own: the flat result and the tree
RecordAlone(file, row) ==
    IF bat_in.request.type = "csv"
    THEN LET transformed == apply_mappings_to_row(
                                row, bat_in.request.mappings, bat_in.request.source_schema,
                                bat_in.request.target_schema, bat_in.constants)
         IN [result |-> transformed,
             tree |-> create_xml_from_data(transformed, bat_in.request.target_schema,
                                           "Record")]
    ELSE LET alone == XmlFile([bat_run EXCEPT !.request = bat_in.request,
                                              !.constants = bat_in.constants,
                                              !.outputs = <<>>], 1, file)
         IN [result |-> alone.outputs[1].result, tree |-> alone.outputs[1].tree]

\* the records the run writes, in processing order
RECURSIVE BatRecords(_)
BatRecords(i) ==
    IF i > Len(bat_in.files) THEN <<>>
    ELSE LET file == bat_in.files[i]
             written == IF file.fails_at # 0 THEN file.fails_at - 1 ELSE Len(file.rows)
         IN (IF ~ file.readable THEN <<>>
             ELSE IF bat_in.request.type = "csv"
             THEN [k \in 1..written |-> [file |-> file, row |-> file.rows[k]]]
             ELSE <<[file |-> file, row |-> <<>>]>>)
            \o BatRecords(i + 1)

\* C22: the flat result and the output tree of each record of a run are
\* what that record gives on its own with the schemas, mappings and constants
\* of the request, whatever records were processed before it; and the run
\* leaves the schemas, the mappings and the constants as the request gave them.
C22_RecordsIndependent ==
    bat_run # <<>> =>
        /\ bat_run.request = bat_in.request
        /\ bat_run.constants = bat_in.constants
        /\ \A k \in 1..Len(bat_run.outputs) :
               LET rec == BatRecords(1)[k]
                   alone == RecordAlone(rec.file, rec.row)
               IN /\ bat_run.outputs[k].result = alone.result
                  /\ bat_run.outputs[k].tree = alone.tree

\* a record without an Age value has been processed after a record with one
C22_Witness ==
    /\ bat_run # <<>> /\ Len(bat_run.outputs) >= 2
    /\ \E k \in 2..Len(bat_run.outputs) :
           /\ ResultValue(bat_run.outputs[k - 1].result, <<"Person", "Age">>) # <<>>
           /\ ResultValue(bat_run.outputs[k].result, <<"Person", "Age">>) = <<>>

-----------------------------------------------------------------------------
(* The recursion guard and the order counter of the analyzers *)

\* what a walk that stops exactly at a repeated type emits for an element:
\* the set of [path, recursive] of the leaves below it; chain holds the named
\* types of the ancestors, and an anonymous complexType is no type of the chain
RECURSIVE ChainLeaves(_, _, _, _)
ChainLeaves(types, elem, path, chain) ==
    LET current_path == path \o <<elem.name>>
        ct == StructType(types, elem)
        named == IF elem.inline.present THEN "" ELSE elem.type_ref
    IN IF elem.name = "" THEN {}
       ELSE IF named # "" /\ named \in chain
       THEN {[path |-> current_path, recursive |-> TRUE]}
       ELSE IF ct.present /\ ct.has_seq
       THEN UNION {ChainLeaves(types, ct.seq[i], current_path,
                               IF named # "" THEN chain \cup {named} ELSE chain) :
                       i \in 1..Len(ct.seq)}
       ELSE {[path |-> current_path, recursive |-> FALSE]}

SchemaLeaves(xsd) ==
    UNION {ChainLeaves(xsd.types, xsd.roots[i], <<>>, {}) : i \in 1..Len(xsd.roots)}

EmittedLeaves(raw) ==
    {[path |-> raw[i].path, recursive |-> raw[i].isRecursive] : i \in 1..Len(raw)}

\* C23: the target analysis emits an element as a recursive leaf Field, without
\* expanding it, exactly when its type already occurs among the types of its
\* ancestors on the current chain; a type met in two sibling branches is
\* expanded in both; and of a schema whose chains repeat no type no element
\* is marked recursive or dropped.
C23_RecursiveExactlyOnRepeatedType ==
    an_mode = "target" => EmittedLeaves(an_out.raw) = SchemaLeaves(an_xsd)

\* an anonymous complexType inside an element that has the name of one of
\* its ancestors with an anonymous complexType
RECURSIVE InlineNameRepeats(_, _)
InlineNameRepeats(elem, names) ==
    /\ elem.inline.present
    /\ \/ elem.name \in names
       \/ \E i \in 1..Len(elem.inline.seq) :
              InlineNameRepeats(elem.inline.seq[i], names \cup {elem.name})

InlineNameRepeatsIn(xsd) ==
    \E n \in DOMAIN xsd.types : \E i \in 1..Len(xsd.types[n].seq) :
        InlineNameRepeats(xsd.types[n].seq[i], {})

\* the same, for the descriptions that nest no more than MAX_RECURSION_DEPTH
\* deep and repeat no element name among nested anonymous types
C23_ExactUnlessDeepOrInline ==
    (an_mode = "target" /\ an_xsd # AnDeepXsd /\ ~ InlineNameRepeatsIn(an_xsd)) =>
        EmittedLeaves(an_out.raw) = SchemaLeaves(an_xsd)

\* the analyzed description has a string leaf below MAX_RECURSION_DEPTH
C23_DeepLeafKept ==
    (an_mode = "target" /\ an_xsd = AnDeepXsd) =>
        \E i \in 1..Len(an_out.raw) : Len(an_out.raw[i].path) = MAX_RECURSION_DEPTH + 2


\* the paths of the elements the target walk visits, in depth-first pre-order
RECURSIVE PreOrder(_, _, _, _, _)
RECURSIVE PreOrderOfSeq(_, _, _, _, _, _)
PreOrderOfSeq(types, seq, i, path, depth, chain) ==
    IF i > Len(seq) THEN <<>>
    ELSE PreOrder(types, seq[i], path, depth, chain)
         \o PreOrderOfSeq(types, seq, i + 1, path, depth, chain)

PreOrder(types, elem, path, depth, chain) ==
    LET current_path == path \o <<elem.name>>
        ct == StructType(types, elem)
        type_name == IF elem.type_ref # "" THEN elem.type_ref
                     ELSE IF elem.inline.present THEN InlineTypeName(elem.name) ELSE ""
    IN IF depth > MAX_RECURSION_DEPTH THEN <<>>
       ELSE IF elem.name = "" \/ (type_name # "" /\ type_name \in chain)
                 \/ ~ (ct.present /\ ct.has_seq)
       THEN <<current_path>>
       ELSE <<current_path>>
            \o PreOrderOfSeq(types, ct.seq, 1, current_path, depth + 1,
                             IF type_name # "" THEN chain \cup {type_name} ELSE chain)

VisitedElements(xsd) == PreOrderOfSeq(xsd.types, xsd.roots, 1, <<>>, 0, {})

\* no two visited elements have the same path
PathsDistinct(xsd) ==
    \A j, k \in 1..Len(VisitedElements(xsd)) :
        j # k => VisitedElements(xsd)[j] # VisitedElements(xsd)[k]

\* the place of the element with this path in the pre-order
DeclaredAt(xsd, path) == CHOOSE k \in 1..Len(VisitedElements(xsd)) : VisitedElements(xsd)[k] = path

\* the Fields, the RepeatingGroups and the group child Fields of a Schema,
\* each with its path and its order index
OrderedItems(schema) ==
    {[kind |-> "field", path |-> schema.fields[i].path, order |-> schema.fields[i].order] :
        i \in 1..Len(schema.fields)}
    \cup {[kind |-> "group", path |-> schema.repeating_elements[r].path,
           order |-> schema.repeating_elements[r].order] :
             r \in 1..Len(schema.repeating_elements)}
    \cup UNION {{[kind |-> "child", path |-> schema.repeating_elements[r].fields[k].path,
                  order |-> schema.repeating_elements[r].fields[k].order] :
                    k \in 1..Len(schema.repeating_elements[r].fields)} :
                 r \in 1..Len(schema.repeating_elements)}

\* the value of element_order[0] when the target walk is over
FinalOrder(xsd) == process_roots_tgt(xsd.types, xsd.roots, 1, AnState0).order

OrderFollowsDeclaration(xsd, schema) ==
    \A a, b \in OrderedItems(schema) :
        /\ a.path # b.path => a.order # b.order
        /\ DeclaredAt(xsd, a.path) < DeclaredAt(xsd, b.path) => a.order < b.order

\* C24: in the target analysis of a description whose paths are distinct one counter
\* advances exactly once per visited element, in depth-first pre-order; the
\* Fields, the RepeatingGroups and the group child Fields of the Schema have
\* distinct order indexes, and of two of them the one declared earlier has
\* the smaller index, at any depth.
C24_OneIndexPerElementInPreOrder ==
    (an_mode = "target" /\ an_out.status = "ok" /\ PathsDistinct(an_xsd)) =>
        /\ FinalOrder(an_xsd) = Len(VisitedElements(an_xsd))
        /\ OrderFollowsDeclaration(an_xsd, an_out)

\* the same, for the Schemas without a RepeatingGroup
C24_PreOrderWithoutGroups ==
    (/\ an_mode = "target" /\ an_out.status = "ok" /\ PathsDistinct(an_xsd)
     /\ an_out.repeating_elements = <<>>) =>
        /\ FinalOrder(an_xsd) = Len(VisitedElements(an_xsd))
        /\ OrderFollowsDeclaration(an_xsd, an_out)

\* the order indexes alone, for every Schema of the target analysis
C24_OrderFollowsDeclaration ==
    (an_mode = "target" /\ an_out.status = "ok" /\ PathsDistinct(an_xsd)) =>
        OrderFollowsDeclaration(an_xsd, an_out)


\* the repeatable elements the walk reaches and does not cut as recursive:
\* the set of [path, complex, empty_seq]
RECURSIVE Repeatables(_, _, _, _, _)
Repeatables(types, elem, path, depth, chain) ==
    LET current_path == path \o <<elem.name>>
        ct == StructType(types, elem)
        type_name == IF elem.type_ref # "" THEN elem.type_ref
                     ELSE IF elem.inline.present THEN InlineTypeName(elem.name) ELSE ""
        here == IF elem.maxOccurs = "1" THEN {}
                ELSE {[path |-> current_path,
                       complex |-> ct.present /\ ct.has_seq /\ ct.seq # <<>>,
                       empty_seq |-> ct.present /\ ct.has_seq /\ ct.seq = <<>>]}
    IN IF depth > MAX_RECURSION_DEPTH \/ elem.name = ""
          \/ (type_name # "" /\ type_name \in chain)
       THEN {}
       ELSE IF ct.present /\ ct.has_seq
       THEN here \cup UNION {Repeatables(types, ct.seq[i], current_path, depth + 1,
                                         IF type_name # "" THEN chain \cup {type_name}
                                         ELSE chain) : i \in 1..Len(ct.seq)}
       ELSE here

RepeatableElements(xsd) ==
    UNION {Repeatables(xsd.types, xsd.roots[i], <<>>, 0, {}) : i \in 1..Len(xsd.roots)}

HasGroupAt(schema, path) ==
    \E r \in 1..Len(schema.repeating_elements) : schema.repeating_elements[r].path = path

HasRepeatableFieldAt(schema, path) ==
    \E i \in 1..Len(schema.raw) : schema.raw[i].path = path /\ schema.raw[i].repeatable

GroupIffChildren(xsd, schema, e) ==
    IF e.complex THEN HasGroupAt(schema, e.path)
    ELSE ~ HasGroupAt(schema, e.path) /\ HasRepeatableFieldAt(schema, e.path)

\* C25: in the analysis of a description, as source or as target, an element
\* with maxOccurs above 1 produces a RepeatingGroup exactly when its type has
\* a non-empty sequence of children; otherwise it produces a Field with the
\* repeatable flag set and no RepeatingGroup.
C25_GroupIffChildren ==
    (an_out.status = "ok" /\ PathsDistinct(an_xsd)) =>
        \A e \in RepeatableElements(an_xsd) : GroupIffChildren(an_xsd, an_out, e)

\* the same for the target analysis alone
C25_TargetGroupIffChildren ==
    (an_mode = "target" /\ an_out.status = "ok" /\ PathsDistinct(an_xsd)) =>
        \A e \in RepeatableElements(an_xsd) : GroupIffChildren(an_xsd, an_out, e)

\* the same for the target analysis and the types without an empty sequence
C25_TargetUnlessEmptySequence ==
    (an_mode = "target" /\ an_out.status = "ok" /\ PathsDistinct(an_xsd)) =>
        \A e \in RepeatableElements(an_xsd) :
            ~ e.empty_seq => GroupIffChildren(an_xsd, an_out, e)

\* in the source analysis the groups are as claimed
C25_SourceGroups ==
    (an_mode = "source" /\ an_out.status = "ok" /\ PathsDistinct(an_xsd)) =>
        \A e \in RepeatableElements(an_xsd) : e.complex <=> HasGroupAt(an_out, e.path)


\* no Field, RepeatingGroup or group child Field stands for a nameless element
NoNamelessItems(schema) ==
    \A it \in OrderedItems(schema) : \A k \in 1..Len(it.path) : it.path[k] # ""

\* C26: the analysis of a description, as source or as target, skips the
\* elements without a name, and when it ends with zero Fields it reports an
\* error instead of returning a Schema.
C26_NamelessSkippedZeroFieldsFatal ==
    an_mode \in {"source", "target"} =>
        /\ NoNamelessItems(an_out)
        /\ an_out.status = "ok" => an_out.fields # <<>>

\* the same for the target analysis alone
C26_TargetZeroFieldsFatal ==
    an_mode = "target" =>
        /\ NoNamelessItems(an_out)
        /\ an_out.status = "ok" => an_out.fields # <<>>

\* the nameless elements are skipped by both analyzers
C26_NamelessSkipped ==
    an_mode \in {"source", "target"} => NoNamelessItems(an_out)
====
